---- MODULE Spec2Model ----
(***************************************************************************)
(* Model of the document composition and diagram rendering pipeline of the *)
(* AsciiDoc preview plugin: generic include expansion (renderer.ts),       *)
(* diagram include expansion (expandPlantumlIncludes.ts), the cached       *)
(* render (renderWithCache.ts, preprocessDiagrams.ts) and the preview      *)
(* view's render scheduling (AsciidocPreviewView.ts).                      *)
(***************************************************************************)
EXTENDS Integers, Sequences, FiniteSets, Bags, TLC

VARIABLES
  \* ---- generic include expansion of one document (renderer.ts)
  incVault,     \* path -> lines of the file, for the files that exist
  incPc,        \* "idle" | "run" | "done"
  incStack,     \* the active calls of expandVaultIncludes, innermost last
  incOut,       \* lines of the composed document
  incDeps,      \* dependency set of the run
  \* ---- plugin, view and pipeline runs
  rootDoc,      \* the diagram blocks of the file the view shows
  cache,        \* plugin.diagramCache.items: fingerprint -> record
  clock,        \* Date.now()
  maxItems,     \* plugin.settings.cacheMaxItems
  renderSeq,    \* AsciidocPreviewView.renderSeq
  renderTimer,  \* AsciidocPreviewView.renderTimer is set
  timeouts,     \* the timeouts of window.setTimeout that are pending
  viewDeps,     \* AsciidocPreviewView.deps, tagged with the run that set it
  display,      \* previewEl.innerHTML, tagged with the run that set it
  runs,         \* seq -> the state of that renderImpl invocation
  late,         \* requestUrl calls still in flight after their timeout
  \* ---- history of the pipeline (not program state)
  calls,        \* bag of the fingerprints KrokiClient.render was invoked for
  okCalls,      \* bag of the fingerprints it returned an image for
  evicted,      \* fingerprints trimCache has removed
  ev,           \* the last pipeline step taken
  burst,        \* the file events since the view last started a run
  \* ---- one application of a function of the program to an input
  fn            \* the function, its input and, once applied, its result

incVars  == <<incVault, incPc, incStack, incOut, incDeps>>
pipeVars == <<rootDoc, cache, clock, maxItems, renderSeq, renderTimer, timeouts, viewDeps, display, runs, late>>
histVars == <<calls, okCalls, evicted, ev, burst>>
vars     == <<incVars, pipeVars, histVars, fn>>

Max(a, b) == IF a >= b THEN a ELSE b

Min(a, b) == IF a <= b THEN a ELSE b

\* no function is being applied
NoCall == [f |-> "none"]

(***************************************************************************)
(* Lines of a document.  A heading carries its marker depth (level); orig  *)
(* and chain are history: the depth written in the source file and the sum *)
(* of the leveloffset values of the directives it was included through.    *)
(***************************************************************************)
HeadLine(n)          == [kind |-> "head", level |-> n, orig |-> n, chain |-> 0]
IncLine(t, off, opt) == [kind |-> "inc", target |-> t, leveloffset |-> off, optional |-> opt]
NotFoundLine(t)      == [kind |-> "notfound", target |-> t]
MaxDepthLine(p)      == [kind |-> "maxdepth", path |-> p]
BeginLine(p)         == [kind |-> "begin", path |-> p]
EndLine(p)           == [kind |-> "end", path |-> p]
\* a block attribute line with its opening ---- line, the closing ---- line,
\* and the placeholder @@KROKI_BLOCK_n@@
OpenLine(t)          == [kind |-> "open", diagramType |-> t]
CloseLine            == [kind |-> "close"]
TokenLine(n)         == [kind |-> "token", n |-> n]

\* expandVaultIncludes is called with maxDepth 30
maxDepth == 30

(***************************************************************************)
(* shiftHeadingLevels: every heading line's marker depth moves by offset,  *)
(* clamped to 1; other lines are kept.                                     *)
(***************************************************************************)
ShiftLine(l, offset) ==
  IF l.kind = "head" THEN [l EXCEPT !.level = Max(1, l.level + offset)] ELSE l

shiftHeadingLevels(text, offset) ==
  IF offset = 0 THEN text
  ELSE [i \in 1..Len(text) |-> ShiftLine(text[i], offset)]

\* history only: the included block came through a directive with leveloffset off
AddChain(text, off) ==
  [i \in 1..Len(text) |->
     IF text[i].kind = "head" THEN [text[i] EXCEPT !.chain = @ + off] ELSE text[i]]

(***************************************************************************)
(* Generic include expansion of one document (renderAsciidocToHtml and     *)
(* expandVaultIncludes).  The recursion is kept as an explicit stack; a    *)
(* frame is one call of expandVaultIncludes:                               *)
(*   path, text   currentFilePath and the text being scanned               *)
(*   i            the next line the scan looks at                          *)
(*   depth        the call's depth                                         *)
(*   inherited    inherited.leveloffset of the call                        *)
(*   off          leveloffset of the directive that made the call          *)
(*   out          the output built so far                                  *)
(* The vaults the model draws: every file holds a level-1 heading followed *)
(* by at most one include directive; gone.adoc does not exist.             *)
(***************************************************************************)
IncFiles == {"root.adoc", "a.adoc", "b.adoc"}

IncDirectives ==
  {IncLine(t, off, FALSE) : t \in IncFiles \cup {"gone.adoc"}, off \in {0, 1}}
    \cup {IncLine("gone.adoc", 0, TRUE)}

IncContents ==
  {<<HeadLine(1)>>} \cup {<<HeadLine(1), d>> : d \in IncDirectives}

IncVaults == [IncFiles -> IncContents]

IncInit ==
  /\ incVault \in IncVaults
  /\ incPc = "idle"
  /\ incStack = <<>>
  /\ incOut = <<>>
  /\ incDeps = {}

IncQuiet ==
  /\ incVault = [f \in IncFiles |-> <<HeadLine(1)>>]
  /\ incPc = "idle"
  /\ incStack = <<>>
  /\ incOut = <<>>
  /\ incDeps = {}

(***************************************************************************)
(* extractDiagramBlocks on the lines of a document: a block runs from an   *)
(* attribute line with its ---- to the first ---- after it.                *)
(***************************************************************************)
RECURSIVE ExtractFrom(_, _)
ExtractFrom(text, i) ==
  IF i > Len(text) THEN <<>>
  ELSE IF text[i].kind = "open" /\ \E j \in (i + 1)..Len(text) : text[j].kind = "close"
  THEN LET j == CHOOSE j \in (i + 1)..Len(text) :
                  /\ text[j].kind = "close"
                  /\ \A k \in (i + 1)..(j - 1) : text[k].kind # "close"
       IN  <<[raw |-> SubSeq(text, i, j), diagramType |-> text[i].diagramType,
              source |-> SubSeq(text, i + 1, j - 1)]>> \o ExtractFrom(text, j + 1)
  ELSE ExtractFrom(text, i + 1)

extractDiagramBlocks(adoc) == ExtractFrom(adoc, 1)

\* String.replace(pattern, replacement) on lines: the first occurrence of the
\* run of lines pattern is replaced
RECURSIVE ReplaceLines(_, _, _)
ReplaceLines(text, pattern, replacement) ==
  IF Len(text) < Len(pattern) THEN text
  ELSE IF SubSeq(text, 1, Len(pattern)) = pattern
  THEN replacement \o SubSeq(text, Len(pattern) + 1, Len(text))
  ELSE <<text[1]>> \o ReplaceLines(Tail(text), pattern, replacement)

\* maskDiagramBlocks: block i of the text gives way to token i
RECURSIVE MaskBlocks(_, _, _)
MaskBlocks(masked, blocks, i) ==
  IF i > Len(blocks) THEN masked
  ELSE MaskBlocks(ReplaceLines(masked, blocks[i].raw, <<TokenLine(i - 1)>>), blocks, i + 1)

maskDiagramBlocks(adoc) == MaskBlocks(adoc, extractDiagramBlocks(adoc), 1)

\* unmaskDiagramBlocks: token i gives way to the raw text of block i
RECURSIVE UnmaskBlocks(_, _, _)
UnmaskBlocks(out, blocks, i) ==
  IF i > Len(blocks) THEN out
  ELSE UnmaskBlocks(ReplaceLines(out, <<TokenLine(i - 1)>>, blocks[i].raw), blocks, i + 1)

unmaskDiagramBlocks(adoc, blocks) == UnmaskBlocks(adoc, blocks, 1)

IncTop == incStack[Len(incStack)]

IncSetTop(f) == [incStack EXCEPT ![Len(incStack)] = f]

\* variant for sensitivity checks: a call scans its text at any depth
EnterFrameAnyDepth(path, text, depth, inherited, off) ==
  [path |-> path, text |-> text, i |-> 1, depth |-> depth,
   inherited |-> inherited, off |-> off, out |-> <<>>]

\* a call of expandVaultIncludes: beyond maxDepth it returns the diagnostic and
\* the text unexpanded, otherwise it scans the text from its first line
EnterFrame(path, text, depth, inherited, off) ==
  IF depth > maxDepth
  THEN [path |-> path, text |-> text, i |-> Len(text) + 1, depth |-> depth,
        inherited |-> inherited, off |-> off, out |-> <<MaxDepthLine(path)>> \o text]
  ELSE [path |-> path, text |-> text, i |-> 1, depth |-> depth,
        inherited |-> inherited, off |-> off, out |-> <<>>]

\* the block a returned call leaves in its caller's output: shifted once by the
\* call's total offset when that is not 0, between the provenance comments
InsertIncluded(f) ==
  <<BeginLine(f.path)>>
    \o AddChain(IF f.inherited # 0 THEN shiftHeadingLevels(f.out, f.inherited) ELSE f.out,
                f.off)
    \o <<EndLine(f.path)>>

\* renderAsciidocToHtml: read the root, mask its diagram blocks, start deps
\* with the root, expand from depth 0
IncStart ==
  /\ incPc = "idle"
  /\ incPc' = "run"
  /\ incDeps' = {"root.adoc"}
  /\ incStack' = <<EnterFrame("root.adoc", maskDiagramBlocks(incVault["root.adoc"]), 0, 0, 0)>>
  /\ UNCHANGED <<incVault, incOut, pipeVars, histVars, fn>>

\* a line that is no directive is copied
IncCopy ==
  /\ incPc = "run"
  /\ IncTop.i <= Len(IncTop.text)
  /\ IncTop.text[IncTop.i].kind # "inc"
  /\ incStack' = IncSetTop([IncTop EXCEPT !.out = Append(@, IncTop.text[IncTop.i]),
                                         !.i = @ + 1])
  /\ UNCHANGED <<incVault, incPc, incOut, incDeps, pipeVars, histVars, fn>>

\* variant for sensitivity checks: the diagnostic is written for optional
\* directives too
IncNotFoundLoud ==
  /\ incPc = "run"
  /\ IncTop.i <= Len(IncTop.text)
  /\ LET l == IncTop.text[IncTop.i]
     IN  /\ l.kind = "inc"
         /\ l.target \notin DOMAIN incVault
         /\ incStack' = IncSetTop([IncTop EXCEPT !.out = Append(@, NotFoundLine(l.target)),
                                                !.i = @ + 1])
  /\ UNCHANGED <<incVault, incPc, incOut, incDeps, pipeVars, histVars, fn>>

\* a directive whose target is no file: a diagnostic unless it is optional
IncNotFound ==
  /\ incPc = "run"
  /\ IncTop.i <= Len(IncTop.text)
  /\ LET l == IncTop.text[IncTop.i]
     IN  /\ l.kind = "inc"
         /\ l.target \notin DOMAIN incVault
         /\ incStack' = IncSetTop([IncTop EXCEPT
                          !.out = IF l.optional THEN @ ELSE Append(@, NotFoundLine(l.target)),
                          !.i = @ + 1])
  /\ UNCHANGED <<incVault, incPc, incOut, incDeps, pipeVars, histVars, fn>>

\* variant for sensitivity checks: the included path does not join deps
IncEnterNoDeps ==
  /\ incPc = "run"
  /\ IncTop.i <= Len(IncTop.text)
  /\ LET l == IncTop.text[IncTop.i]
     IN  /\ l.kind = "inc"
         /\ l.target \in DOMAIN incVault
         /\ incStack' = Append(incStack,
                               EnterFrame(l.target, incVault[l.target], IncTop.depth + 1,
                                          IncTop.inherited + l.leveloffset, l.leveloffset))
  /\ UNCHANGED <<incVault, incPc, incOut, incDeps, pipeVars, histVars, fn>>

\* a directive whose target exists: the path joins deps, the file is read and
\* expandVaultIncludes is called on it with the accumulated offset
IncEnter ==
  /\ incPc = "run"
  /\ IncTop.i <= Len(IncTop.text)
  /\ LET l == IncTop.text[IncTop.i]
     IN  /\ l.kind = "inc"
         /\ l.target \in DOMAIN incVault
         /\ incDeps' = incDeps \cup {l.target}
         /\ incStack' = Append(incStack,
                               EnterFrame(l.target, incVault[l.target], IncTop.depth + 1,
                                          IncTop.inherited + l.leveloffset, l.leveloffset))
  /\ UNCHANGED <<incVault, incPc, incOut, pipeVars, histVars, fn>>

\* a nested call returns: its block is spliced into the caller's output
IncReturn ==
  /\ incPc = "run"
  /\ Len(incStack) > 1
  /\ IncTop.i > Len(IncTop.text)
  /\ LET caller == incStack[Len(incStack) - 1]
     IN  incStack' = [SubSeq(incStack, 1, Len(incStack) - 1) EXCEPT ![Len(incStack) - 1] =
                        [caller EXCEPT !.out = @ \o InsertIncluded(IncTop), !.i = @ + 1]]
  /\ UNCHANGED <<incVault, incPc, incOut, incDeps, pipeVars, histVars, fn>>

\* the outermost call returns and the root's diagram blocks are put back:
\* the composed document
IncFinish ==
  /\ incPc = "run"
  /\ Len(incStack) = 1
  /\ IncTop.i > Len(IncTop.text)
  /\ incOut' = unmaskDiagramBlocks(IncTop.out, extractDiagramBlocks(incVault["root.adoc"]))
  /\ incStack' = <<>>
  /\ incPc' = "done"
  /\ UNCHANGED <<incVault, incDeps, pipeVars, histVars, fn>>

NextInc == IncStart \/ IncCopy \/ IncNotFound \/ IncEnter \/ IncReturn \/ IncFinish

(***************************************************************************)
(* Diagram sources.  A line of a diagram body or of a diagram include file *)
(* is plain text, a generic directive (include::target[]) or a diagram     *)
(* directive (!include, !include_once, !include_many).                     *)
(***************************************************************************)
PText(id)        == [kind |-> "text", id |-> id]
AdocInc(t)       == [kind |-> "adocinc", target |-> t]
PumlInc(mode, t) == [kind |-> "puml", mode |-> mode, target |-> t]

RemoteTargets == {"https://example.org/lib.puml", "<https://example.org/lib.puml>"}

isRemoteLike(p) == p \in RemoteTargets

\* expandOne drops the angle brackets around a target
StripAngle(p) == IF p = "<https://example.org/lib.puml>" THEN "https://example.org/lib.puml" ELSE p

\* the diagram include files of the vault; gone.puml does not exist
PVault ==
  ( "common.puml" :> <<PText("common")>> ) @@
  ( "lib.puml"    :> <<PumlInc("include_once", "common.puml"), PText("lib")>> ) @@
  ( "part.adoc"   :> <<AdocInc("common.puml"), PText("part")>> )

IsAdocFile(p) == p \in {"part.adoc", "loop.adoc"}

\* preprocessDiagrams passes maxDepth 20
pumlMaxDepth == 20

NoErr == [kind |-> "none"]
ErrNotFound(p) == [kind |-> "Included file not found", path |-> p]
ErrTooDeep == [kind |-> "PlantUML include nesting too deep"]
ErrAdocTooDeep == [kind |-> "AsciiDoc include nesting too deep"]

(***************************************************************************)
(* The state threaded through one expansion: text is the output built so   *)
(* far, deps the dependency set, seen the once-set, err the exception      *)
(* thrown (NoErr while none); once is history, the paths whose content an  *)
(* include-once directive inserted, in order.                              *)
(***************************************************************************)
ExpState(deps, seen, once) ==
  [text |-> <<>>, deps |-> deps, seen |-> seen, once |-> once, err |-> NoErr]

\* variant for sensitivity checks: the depth test one level late
TooDeepLate(depth) == depth > pumlMaxDepth + 1

\* if (depth > maxDepth) throw
TooDeep(depth) == depth > pumlMaxDepth

Sub(st) == [st EXCEPT !.text = <<>>]

Splice(st, sub) == [sub EXCEPT !.text = st.text \o sub.text]

RECURSIVE expandAdocIncludesInText(_, _, _)
RECURSIVE AdocPass(_, _, _, _)
RECURSIVE expandPlantumlIncludes(_, _, _)
RECURSIVE PumlPass(_, _, _, _, _)

\* the replacer of expandAdocIncludesInText for one include:: line
AdocReplace(l, depth, st) ==
  IF isRemoteLike(l.target) THEN [st EXCEPT !.text = Append(@, l)]
  ELSE IF l.target \notin DOMAIN PVault THEN [st EXCEPT !.err = ErrNotFound(l.target)]
  ELSE Splice(st, expandAdocIncludesInText(PVault[l.target], depth + 1,
                                           Sub([st EXCEPT !.deps = @ \cup {l.target}])))

AdocPass(lines, i, depth, st) ==
  IF st.err # NoErr \/ i > Len(lines) THEN st
  ELSE AdocPass(lines, i + 1, depth,
                IF lines[i].kind = "adocinc" THEN AdocReplace(lines[i], depth, st)
                ELSE [st EXCEPT !.text = Append(@, lines[i])])

expandAdocIncludesInText(text, depth, st) ==
  IF TooDeep(depth) THEN [st EXCEPT !.err = ErrAdocTooDeep]
  ELSE AdocPass(text, 1, depth, st)

\* what expandOne does with the file once it is resolved and read
ExpandFile(af, depth, st) ==
  IF IsAdocFile(af)
  THEN LET a == expandAdocIncludesInText(PVault[af], depth + 1, Sub(st))
       IN  IF a.err # NoErr THEN a
           ELSE Splice(st, expandPlantumlIncludes(a.text, depth + 1, Sub(a)))
  ELSE Splice(st, expandPlantumlIncludes(PVault[af], depth + 1, Sub(st)))

\* expandOne(incPathRaw, mode) of the call at this depth
expandOne(incPathRaw, mode, depth, st) ==
  LET target == StripAngle(incPathRaw) IN
  IF isRemoteLike(target) THEN st
  ELSE IF target \notin DOMAIN PVault THEN [st EXCEPT !.err = ErrNotFound(target)]
  ELSE IF mode = "once" /\ target \in st.seen
       THEN [st EXCEPT !.deps = @ \cup {target}]
  ELSE IF mode = "once"
       THEN ExpandFile(target, depth, [st EXCEPT !.deps = @ \cup {target},
                                                 !.seen = @ \cup {target},
                                                 !.once = Append(@, target)])
  ELSE ExpandFile(target, depth, [st EXCEPT !.deps = @ \cup {target}])

\* one replaceAsync pass over the lines: family "adocinc" first, then "puml"
PumlReplace(l, family, depth, st) ==
  IF family = "adocinc" THEN expandOne(l.target, "normal", depth, st)
  ELSE IF isRemoteLike(l.target) THEN [st EXCEPT !.text = Append(@, l)]
  ELSE expandOne(l.target, IF l.mode = "include_once" THEN "once" ELSE "normal", depth, st)

PumlPass(lines, i, family, depth, st) ==
  IF st.err # NoErr \/ i > Len(lines) THEN st
  ELSE PumlPass(lines, i + 1, family, depth,
                IF lines[i].kind = family THEN PumlReplace(lines[i], family, depth, st)
                ELSE [st EXCEPT !.text = Append(@, lines[i])])

expandPlantumlIncludes(text, depth, st) ==
  IF TooDeep(depth) THEN [st EXCEPT !.err = ErrTooDeep]
  ELSE LET p1 == PumlPass(text, 1, "adocinc", depth, st)
       IN  IF p1.err # NoErr THEN p1
           ELSE PumlPass(p1.text, 1, "puml", depth, Sub(p1))

(***************************************************************************)
(* Diagram blocks and documents.  A block's raw text is identified with    *)
(* the block; a document is its sequence of diagram blocks.                *)
(***************************************************************************)
Block(t, f, src) == [diagramType |-> t, format |-> f, source |-> src]

Blocks ==
  { Block("plantuml", "svg", <<PumlInc("include_once", "common.puml"), PText("a")>>),
    Block("plantuml", "svg", <<PumlInc("include_once", "common.puml"),
                               PumlInc("include", "gone.puml")>>),
    Block("plantuml", "svg", <<PumlInc("include", "lib.puml"),
                               PumlInc("include_once", "common.puml")>>),
    Block("plantuml", "svg", <<AdocInc("part.adoc"),
                               PumlInc("include", "https://example.org/lib.puml")>>),
    Block("mermaid", "svg", <<PText("m")>>),
    Block("ditaa", "svg", <<PText("d")>>) }

MaxBlocks == 2

Docs == UNION {[1..n -> Blocks] : n \in 0..MaxBlocks}

\* settings.enabledDiagramTypes (DEFAULT_SETTINGS)
enabledDiagramTypes == {"plantuml", "mermaid", "graphviz"}

\* sha256Hex(`${diagramType}\n${format}\n${source}`): the three parts determine
\* the text hashed (a kind holds no line break), and the hash is taken as
\* collision-free
sha256Hex(t, f, src) == <<t, f, src>>

mimeOf(format) == IF format = "svg" THEN "image/svg+xml" ELSE "image/png"

\* DiagramCache: the bytes of an image and their base64 text are different
\* values; fromBase64 decodes what toBase64 encoded
toBase64(ab) == <<"base64", ab>>

fromBase64(b64) == b64[2]

\* what the render service may answer: an image, told apart by what
\* isLikelyErrorSvg reads from it, or a failure of KrokiClient.render
Svgs ==
  { <<"syntax error", "<rect">>,
    <<"syntax error", "<rect", "<path">>,
    <<"<text">> }

RenderFailures ==
  { [kind |-> "Kroki render failed: 500"], [kind |-> "Kroki request timeout"],
    [kind |-> "Kroki response has no body"] }

\* An SVG text is the sequence of its pieces: a diagnostic phrase in some
\* letter case, the opening of an element, or other text.  isLikelyErrorSvg
\* looks at svgText.slice(0, 12000) only; HeadLen is that length in pieces.
HeadLen == 3

ErrorPhrases ==
  { "parse error", "syntax error", "lexical error", "unexpected token",
    "failed to parse", "cannot parse", "diagram syntax error" }

toLowerCase(piece) ==
  IF piece = "Syntax Error" THEN "syntax error"
  ELSE IF piece = "<RECT" THEN "<rect"
  ELSE IF piece = "FORMAT" THEN "format"
  ELSE IF piece = "PNG" THEN "png"
  ELSE IF piece = "Svg" THEN "svg"
  ELSE piece

ShapeOpenings == {"<path", "<rect", "<polygon", "<line"}

CountPieces(text, wanted) ==
  Cardinality({i \in 1..Len(text) : toLowerCase(text[i]) \in wanted})

isLikelyErrorSvg(svgText, diagramType) ==
  LET head == SubSeq(svgText, 1, Min(Len(svgText), HeadLen))
      hasErrorPhrase == CountPieces(head, ErrorPhrases) > 0
      shapeCount == CountPieces(head, ShapeOpenings)
  IN  IF ~hasErrorPhrase THEN FALSE
      ELSE IF diagramType = "mermaid" THEN shapeCount <= 1
      ELSE shapeCount <= 1

(***************************************************************************)
(* The diagram cache: plugin.diagramCache.items, its records in insertion  *)
(* order (the order Object.keys lists them in).                            *)
(***************************************************************************)
CacheKeys(items) == {items[i].key : i \in 1..Len(items)}

CacheIndex(items, key) == CHOOSE i \in 1..Len(items) : items[i].key = key

CacheGet(items, key) == items[CacheIndex(items, key)]

\* cache.items[cacheKey] = record
CachePut(items, key, rec) ==
  IF key \in CacheKeys(items)
  THEN [items EXCEPT ![CacheIndex(items, key)] = rec]
  ELSE Append(items, rec)

\* keys.sort((a, b) => savedAt(a) - savedAt(b)): a stable sort, by insertion
RECURSIVE InsertSorted(_, _)
InsertSorted(sorted, rec) ==
  IF sorted = <<>> THEN <<rec>>
  ELSE IF sorted[Len(sorted)].savedAt <= rec.savedAt THEN Append(sorted, rec)
  ELSE Append(InsertSorted(SubSeq(sorted, 1, Len(sorted) - 1), rec), sorted[Len(sorted)])

RECURSIVE SortBySavedAt(_)
SortBySavedAt(items) ==
  IF items = <<>> THEN <<>>
  ELSE InsertSorted(SortBySavedAt(SubSeq(items, 1, Len(items) - 1)), items[Len(items)])

\* variant for sensitivity checks: the first records in insertion order go
TrimRemovedInserted(items, max) ==
  IF max <= 0 \/ Len(items) <= max THEN {}
  ELSE {items[i].key : i \in 1..(Len(items) - max)}

\* the keys trimCache deletes
TrimRemoved(items, max) ==
  IF max <= 0 \/ Len(items) <= max THEN {}
  ELSE LET keys == SortBySavedAt(items)
       IN  {keys[i].key : i \in 1..(Len(items) - max)}

SelectSeq2(items, gone) == SelectSeq(items, LAMBDA r : r.key \notin gone)

\* variant for sensitivity checks: a trimCache that deletes nothing
TrimNothing(items, max) == items

trimCache(items, max) == SelectSeq2(items, TrimRemoved(items, max))

(***************************************************************************)
(* The document under substitution: one item per diagram block, the raw    *)
(* block until out.replace(b.raw, ...) puts a wrapper in its place.        *)
(***************************************************************************)
Raw(b) == [kind |-> "raw", block |-> b]

svgToInlineHtml(t, svg, src) ==
  [kind |-> "diagram", diagramType |-> t, svg |-> svg, indexText |-> src]

ImgHtml(t, data) == [kind |-> "img", diagramType |-> t, data |-> data]

buildKrokiErrorHtml(t, f, message, src) ==
  [kind |-> "error", diagramType |-> t, format |-> f, message |-> message, source |-> src]

SyntaxErrorMessage == [kind |-> "Diagram syntax error (reported by Kroki)"]

\* String.replace with a string pattern: the first occurrence only
ReplaceFirst(out, b, w) ==
  LET at == {i \in 1..Len(out) : out[i] = Raw(b)}
  IN  IF at = {} THEN out
      ELSE [out EXCEPT ![CHOOSE i \in at : \A j \in at : i <= j] = w]

\* what replaces the block once renderWithCache has returned data
Substitute(b, data, src) ==
  IF b.format = "svg"
  THEN IF isLikelyErrorSvg(data, b.diagramType)
       THEN buildKrokiErrorHtml(b.diagramType, b.format, SyntaxErrorMessage, src)
       ELSE svgToInlineHtml(b.diagramType, data, src)
  ELSE ImgHtml(b.diagramType, data)

\* variant for sensitivity checks: a lookup that never finds the record
CacheHitNever(items, key) == <<>>

\* renderWithCache, up to the await of client.render: the record hit, if any
CacheHit(items, key) ==
  IF key \in CacheKeys(items) THEN <<CacheGet(items, key)>> ELSE <<>>

\* renderWithCache, after client.render returned data: the record is stored
StoreRendered(items, key, format, data, now) ==
  CachePut(items, key, [key |-> key, mime |-> mimeOf(format), base64 |-> toBase64(data),
                        savedAt |-> now])

\* variant for sensitivity checks: a record is stored although the call threw
StoreFailedRecord(items, key) ==
  CachePut(items, key, [key |-> key, mime |-> "", base64 |-> <<"base64", "">>, savedAt |-> 0])

\* renderWithCache, when client.render threw: nothing is stored
StoreFailed(items, key) == items

\* variant for sensitivity checks: the once-set carries over from the blocks before
SeenOnceCarried(run) == {run.once[i] : i \in 1..Len(run.once)}

\* the once-set a block's expansion starts from: preprocessDiagrams passes no
\* seenOnce, so expandPlantumlIncludes makes a new one for every block
BlockSeenOnce(run) == {}

\* diagram sources whose include files include themselves: directly, through
\* another file, through include-once, or as an AsciiDoc file
NestSources ==
  << <<PumlInc("include", "self.puml")>>,
     <<PText("n"), PumlInc("include", "ping.puml")>>,
     <<PumlInc("include_once", "self.puml")>>,
     <<AdocInc("loop.adoc")>> >>

NestBlocks == {Block("plantuml", "svg", NestSources[i]) : i \in 1..4}

\* sourceForRender of a block: a plantuml block is expanded, others are not
ExpandBlock(b, run) ==
  IF b.diagramType = "plantuml"
  THEN expandPlantumlIncludes(b.source, 0, ExpState(run.deps, BlockSeenOnce(run), <<>>))
  ELSE [ExpState(run.deps, {}, <<>>) EXCEPT !.text = b.source]

(***************************************************************************)
(* The preview view and its render runs.  The state starts with a file     *)
(* loaded and its first render queued.                                     *)
(***************************************************************************)
MaxRuns == 2

MaxClock == 1

MaxCacheItems == 1

VaultPaths == {"root.adoc"} \cup DOMAIN PVault

NoRun == [pc |-> "none"]

\* no file event seen; last: the events the run started last had collected;
\* missed: the files the current run had read when an event on them was ignored
NoBurst == [dep |-> 0, other |-> 0, last |-> 0, missed |-> {}]

InFlight(r) == runs[r].pc \notin {"none", "done"}

\* the plugin and the view when a file is opened
PipeStart ==
  /\ cache = <<>>
  /\ clock = 0
  /\ maxItems \in 0..MaxCacheItems
  /\ renderSeq = 0
  /\ renderTimer = TRUE
  /\ timeouts = 1
  /\ viewDeps = [seq |-> 0, paths |-> {}]
  /\ display = [seq |-> 0, kind |-> "empty"]
  /\ runs = [r \in 1..MaxRuns |-> NoRun]
  /\ late = {}
  /\ calls = EmptyBag
  /\ okCalls = EmptyBag
  /\ evicted = {}
  /\ ev = [type |-> "none"]
  /\ burst = NoBurst

PipeInit == rootDoc \in Docs /\ PipeStart

\* variant for sensitivity checks: queueRender without the clearTimeout
queueRenderNoClear ==
  /\ renderTimer' = TRUE
  /\ timeouts' = timeouts + 1

\* queueRender: the pending timeout, if any, is cleared and a new one is set
queueRender ==
  /\ renderTimer' = TRUE
  /\ timeouts' = (IF renderTimer THEN timeouts - 1 ELSE timeouts) + 1

\* loadFile
LoadFile ==
  /\ queueRender
  /\ UNCHANGED <<fn, incVars, rootDoc, cache, clock, maxItems, renderSeq, viewDeps, display,
                 runs, late, histVars>>

\* modifyHandler, renameHandler, deleteHandler: only a path of deps queues
FileEvent(p) ==
  /\ p \in viewDeps.paths
  /\ queueRender
  /\ UNCHANGED <<fn, incVars, rootDoc, cache, clock, maxItems, renderSeq, viewDeps, display,
                 runs, late, histVars>>

\* file events the history counts between two run starts
MaxBurst == 2

\* the run started last has read p and has not returned
ReadByCurrent(p) ==
  /\ renderSeq > 0
  /\ runs[renderSeq].pc \in {"blocks", "await", "save"}
  /\ p \in runs[renderSeq].deps

\* modifyHandler (deleteHandler and renameHandler alike) for an event on any
\* path, with the event counted: a path of deps queues a render, any other
\* path returns
modifyHandler(p) ==
  /\ IF p \in viewDeps.paths
       THEN /\ burst.dep < MaxBurst
            /\ queueRender
            /\ burst' = [burst EXCEPT !.dep = @ + 1]
       ELSE /\ burst.other < MaxBurst
            /\ UNCHANGED <<renderTimer, timeouts>>
            /\ burst' = [burst EXCEPT !.other = @ + 1,
                                      !.missed = IF ReadByCurrent(p) THEN @ \cup {p} ELSE @]
  /\ UNCHANGED <<fn, incVars, rootDoc, cache, clock, maxItems, renderSeq, viewDeps, display,
                 runs, late, calls, okCalls, evicted, ev>>

\* the settings tab: a finite number that is not negative becomes cacheMaxItems
SetCacheMaxItems(n) ==
  /\ n >= 0
  /\ maxItems' = n
  /\ UNCHANGED <<fn, incVars, rootDoc, cache, clock, renderSeq, renderTimer, timeouts, viewDeps, display,
                 runs, late, histVars>>

\* the timer fires: renderImpl takes the next seq and awaits the pipeline
RenderImpl ==
  /\ timeouts > 0
  /\ renderSeq < MaxRuns
  /\ timeouts' = timeouts - 1
  /\ renderTimer' = FALSE
  /\ renderSeq' = renderSeq + 1
  /\ runs' = [runs EXCEPT ![renderSeq + 1] = [pc |-> "read"]]
  /\ burst' = [dep |-> 0, other |-> 0, last |-> burst.dep, missed |-> {}]
  /\ UNCHANGED <<fn, late, incVars, rootDoc, cache, clock, maxItems, viewDeps, display,
                 calls, okCalls, evicted, ev>>

\* variant for sensitivity checks: renderImpl without the seq comparison
ApplyAlways(r, result, deps) ==
  /\ runs' = [runs EXCEPT ![r] = [pc |-> "done", result |-> result]]
  /\ display' = [seq |-> r, kind |-> result]
  /\ viewDeps' = IF result = "html" THEN [seq |-> r, paths |-> deps] ELSE viewDeps

\* renderImpl after the await: a superseded run changes nothing; the current
\* one sets deps and the display, or shows the exception
Apply(r, result, deps) ==
  /\ runs' = [runs EXCEPT ![r] = [pc |-> "done", result |-> result]]
  /\ IF r # renderSeq THEN UNCHANGED <<viewDeps, display>>
     ELSE /\ display' = [seq |-> r, kind |-> result]
          /\ viewDeps' = IF result = "html" THEN [seq |-> r, paths |-> deps] ELSE viewDeps

(***************************************************************************)
(* The steps of one run of renderAsciidocToHtml and preprocessDiagrams,    *)
(* from one await to the next.                                             *)
(***************************************************************************)
CurBlock(r) == runs[r].doc[runs[r].idx]

AtBlock(r) ==
  /\ runs[r].pc = "blocks"
  /\ runs[r].idx <= Len(runs[r].doc)

Enabled(r) == CurBlock(r).diagramType \in enabledDiagramTypes

BlockKey(b, e) == sha256Hex(b.diagramType, b.format, e.text)

\* the loop moves to the next block with the block's wrapper in place
NextBlock(run, e, w) ==
  [run EXCEPT !.pc = "blocks", !.idx = @ + 1, !.deps = e.deps,
              !.once = @ \o e.once,
              !.out = ReplaceFirst(@, run.doc[run.idx], w)]

\* deps when expandVaultIncludes has returned: the set generic expansion
\* built where the model ran it, the root alone for a root without directives
GenericDeps == IF incPc = "done" THEN incDeps ELSE {"root.adoc"}

\* app.vault.read(file) rejects: the exception leaves renderAsciidocToHtml
ReadFail(r) ==
  /\ runs[r].pc = "read"
  /\ Apply(r, "threw", {})
  /\ ev' = [type |-> "readError", run |-> r]
  /\ UNCHANGED <<fn, burst, late, incVars, rootDoc, cache, clock, maxItems, renderSeq, renderTimer, timeouts,
                 calls, okCalls, evicted>>

\* the root is read and composed; preprocessDiagrams extracts its blocks; a
\* document without blocks is returned as it is
ReadDone(r) ==
  /\ runs[r].pc = "read"
  /\ IF rootDoc = <<>>
     THEN Apply(r, "html", GenericDeps)
     ELSE /\ runs' = [runs EXCEPT ![r] =
                        [pc |-> "blocks", doc |-> rootDoc, idx |-> 1,
                         cacheBefore |-> Len(cache), deps |-> GenericDeps, once |-> <<>>,
                         out |-> [i \in 1..Len(rootDoc) |-> Raw(rootDoc[i])]]]
          /\ UNCHANGED <<viewDeps, display>>
  /\ ev' = [type |-> "read", run |-> r]
  /\ UNCHANGED <<fn, burst, late, incVars, rootDoc, cache, clock, maxItems, renderSeq, renderTimer, timeouts,
                 calls, okCalls, evicted>>

\* a block whose kind is not enabled is left as it is
BlockSkip(r) ==
  /\ AtBlock(r)
  /\ ~Enabled(r)
  /\ runs' = [runs EXCEPT ![r].idx = @ + 1]
  /\ ev' = [type |-> "skip", run |-> r, idx |-> runs[r].idx]
  /\ UNCHANGED <<fn, burst, late, incVars, rootDoc, cache, clock, maxItems, renderSeq, renderTimer, timeouts, viewDeps,
                 display, calls, okCalls, evicted>>

\* expandPlantumlIncludes throws: the catch puts the error wrapper, with the
\* block's own source, in the block's place
BlockIncludeError(r) ==
  /\ AtBlock(r)
  /\ Enabled(r)
  /\ LET b == CurBlock(r)
         e == ExpandBlock(b, runs[r])
     IN  /\ e.err # NoErr
         /\ runs' = [runs EXCEPT ![r] =
                       NextBlock(runs[r], e,
                                 buildKrokiErrorHtml(b.diagramType, b.format, e.err, b.source))]
  /\ ev' = [type |-> "includeError", run |-> r, idx |-> runs[r].idx, before |-> cache,
            calls |-> calls]
  /\ UNCHANGED <<fn, burst, late, incVars, rootDoc, cache, clock, maxItems, renderSeq, renderTimer, timeouts, viewDeps,
                 display, calls, okCalls, evicted>>

\* renderWithCache finds the record: the cached data is substituted
BlockHit(r) ==
  /\ AtBlock(r)
  /\ Enabled(r)
  /\ LET b == CurBlock(r)
         e == ExpandBlock(b, runs[r])
         hit == CacheHit(cache, BlockKey(b, e))
     IN  /\ e.err = NoErr
         /\ hit # <<>>
         /\ runs' = [runs EXCEPT ![r] = NextBlock(runs[r], e,
                                 Substitute(b, fromBase64(hit[1].base64), e.text))]
         /\ ev' = [type |-> "hit", run |-> r, idx |-> runs[r].idx, key |-> BlockKey(b, e),
                   data |-> fromBase64(hit[1].base64)]
  /\ UNCHANGED <<fn, burst, late, incVars, rootDoc, cache, clock, maxItems, renderSeq, renderTimer, timeouts, viewDeps,
                 display, calls, okCalls, evicted>>

\* renderWithCache finds no record: client.render is invoked and awaited
BlockCall(r) ==
  /\ AtBlock(r)
  /\ Enabled(r)
  /\ LET b == CurBlock(r)
         e == ExpandBlock(b, runs[r])
     IN  /\ e.err = NoErr
         /\ CacheHit(cache, BlockKey(b, e)) = <<>>
         /\ runs' = [runs EXCEPT ![r] =
                       [runs[r] EXCEPT !.pc = "await", !.deps = e.deps, !.once = @ \o e.once]
                         @@ [src |-> e.text, key |-> BlockKey(b, e)]]
         /\ calls' = calls (+) SetToBag({BlockKey(b, e)})
         /\ ev' = [type |-> "call", run |-> r, idx |-> runs[r].idx, key |-> BlockKey(b, e)]
  /\ UNCHANGED <<fn, burst, late, incVars, rootDoc, cache, clock, maxItems, renderSeq, renderTimer, timeouts, viewDeps,
                 display, okCalls, evicted>>

\* the state of the run when the awaited call is over
AfterAwait(run, w) ==
  [f \in DOMAIN run \ {"src", "key"} |->
     NextBlock(run, [text |-> run.src, deps |-> run.deps, once |-> <<>>], w)[f]]

\* client.render returns an image: the record is stored, then the image is
\* classified and substituted
RenderOk(r, data) ==
  /\ runs[r].pc = "await"
  /\ \E now \in {t \in {clock, clock + 1} : t <= MaxClock} :
        /\ clock' = now
        /\ cache' = StoreRendered(cache, runs[r].key, CurBlock(r).format, data, now)
  /\ okCalls' = okCalls (+) SetToBag({runs[r].key})
  /\ runs' = [runs EXCEPT ![r] = AfterAwait(runs[r], Substitute(CurBlock(r), data, runs[r].src))]
  /\ ev' = [type |-> IF CurBlock(r).format = "svg" /\ isLikelyErrorSvg(data, CurBlock(r).diagramType)
                     THEN "disguised" ELSE "rendered",
            run |-> r, idx |-> runs[r].idx, key |-> runs[r].key, data |-> data]
  /\ UNCHANGED <<fn, burst, late, incVars, rootDoc, maxItems, renderSeq, renderTimer, timeouts, viewDeps, display,
                 calls, evicted>>

\* client.render throws (status, timeout, no body): the catch puts the error
\* wrapper, with the message and the source submitted, in the block's place
RenderFail(r, message) ==
  /\ runs[r].pc = "await"
  /\ cache' = StoreFailed(cache, runs[r].key)
  /\ runs' = [runs EXCEPT ![r] =
                AfterAwait(runs[r], buildKrokiErrorHtml(CurBlock(r).diagramType, CurBlock(r).format,
                                                        message, runs[r].src))]
  /\ ev' = [type |-> "transportError", run |-> r, idx |-> runs[r].idx, key |-> runs[r].key,
            message |-> message, src |-> runs[r].src, before |-> cache]
  /\ UNCHANGED <<fn, burst, late, incVars, rootDoc, clock, maxItems, renderSeq, renderTimer, timeouts, viewDeps, display,
                 calls, okCalls, evicted>>

\* plugin.settings.timeoutMs, as DEFAULT_SETTINGS has it
timeoutMs == 15000

TimeoutMessage == [kind |-> "Kroki request timeout"]

\* variant for sensitivity checks: the request is dropped when the timeout wins
withTimeoutAborting(requests, q) == requests

\* withTimeout when the timeout wins Promise.race: the requestUrl promise is
\* not cancelled, it stays in flight with nothing awaiting it
withTimeout(requests, q) == requests \cup {q}

\* the timeout of withTimeout expires before requestUrl has answered:
\* client.render rejects, renderWithCache stores nothing and the catch of
\* preprocessDiagrams puts the error wrapper in the block's place
RenderTimeout(r) ==
  /\ runs[r].pc = "await"
  /\ timeoutMs > 0
  /\ late' = withTimeout(late, [run |-> r, idx |-> runs[r].idx, key |-> runs[r].key])
  /\ cache' = StoreFailed(cache, runs[r].key)
  /\ runs' = [runs EXCEPT ![r] =
                AfterAwait(runs[r], buildKrokiErrorHtml(CurBlock(r).diagramType, CurBlock(r).format,
                                                        TimeoutMessage, runs[r].src))]
  /\ ev' = [type |-> "timeout", run |-> r, idx |-> runs[r].idx, key |-> runs[r].key,
            src |-> runs[r].src, before |-> cache]
  /\ UNCHANGED <<fn, burst, incVars, rootDoc, clock, maxItems, renderSeq, renderTimer, timeouts,
                 viewDeps, display, calls, okCalls, evicted>>

\* the request answers, or fails, after its timeout: the promise that lost
\* the race settles and nothing reads it
LateResponse(q) ==
  /\ q \in late
  /\ late' = late \ {q}
  /\ ev' = [type |-> "late", run |-> q.run, idx |-> q.idx, key |-> q.key]
  /\ UNCHANGED <<fn, burst, incVars, rootDoc, cache, clock, maxItems, renderSeq, renderTimer,
                 timeouts, viewDeps, display, runs, calls, okCalls, evicted>>

\* after the loop with the number of records unchanged: the document is returned
FinishNoSave(r) ==
  /\ runs[r].pc = "blocks"
  /\ runs[r].idx > Len(runs[r].doc)
  /\ Len(cache) = runs[r].cacheBefore
  /\ Apply(r, "html", runs[r].deps)
  /\ ev' = [type |-> "finish", run |-> r]
  /\ UNCHANGED <<fn, burst, late, incVars, rootDoc, cache, clock, maxItems, renderSeq, renderTimer, timeouts,
                 calls, okCalls, evicted>>

\* after the loop with the number of records changed: trimCache, then
\* saveSettings is awaited
FinishTrim(r) ==
  /\ runs[r].pc = "blocks"
  /\ runs[r].idx > Len(runs[r].doc)
  /\ Len(cache) # runs[r].cacheBefore
  /\ cache' = trimCache(cache, maxItems)
  /\ evicted' = evicted \cup TrimRemoved(cache, maxItems)
  /\ runs' = [runs EXCEPT ![r].pc = "save"]
  /\ ev' = [type |-> "trim", run |-> r, before |-> cache, max |-> maxItems]
  /\ UNCHANGED <<fn, burst, late, incVars, rootDoc, clock, maxItems, renderSeq, renderTimer, timeouts, viewDeps, display,
                 calls, okCalls>>

\* saveSettings resolves, or rejects and the exception leaves the pipeline
SaveReturn(r, ok) ==
  /\ runs[r].pc = "save"
  /\ Apply(r, IF ok THEN "html" ELSE "threw", runs[r].deps)
  /\ ev' = [type |-> IF ok THEN "saved" ELSE "saveError", run |-> r]
  /\ UNCHANGED <<fn, burst, late, incVars, rootDoc, cache, clock, maxItems, renderSeq, renderTimer, timeouts,
                 calls, okCalls, evicted>>

RunStep(r) ==
  \/ ReadFail(r)
  \/ ReadDone(r)
  \/ BlockSkip(r)
  \/ BlockIncludeError(r)
  \/ BlockHit(r)
  \/ BlockCall(r)
  \/ \E data \in Svgs : RenderOk(r, data)
  \/ \E m \in RenderFailures : RenderFail(r, m)
  \/ FinishNoSave(r)
  \/ FinishTrim(r)
  \/ \E ok \in BOOLEAN : SaveReturn(r, ok)

\* a render starts only when none is in flight
SeqRenderImpl ==
  /\ \A r \in 1..MaxRuns : ~InFlight(r)
  /\ RenderImpl

NextSeq ==
  \/ LoadFile
  \/ \E p \in VaultPaths : FileEvent(p)
  \/ \E n \in 0..MaxCacheItems : SetCacheMaxItems(n)
  \/ SeqRenderImpl
  \/ \E r \in 1..MaxRuns : RunStep(r)

NextView ==
  \/ LoadFile
  \/ \E p \in VaultPaths : FileEvent(p)
  \/ \E n \in 0..MaxCacheItems : SetCacheMaxItems(n)
  \/ RenderImpl
  \/ \E r \in 1..MaxRuns : RunStep(r)

InitInc == IncInit /\ PipeInit /\ rootDoc = <<>> /\ maxItems = 0 /\ fn = NoCall

InitSeq == IncQuiet /\ PipeInit /\ fn = NoCall

InitView == IncQuiet /\ PipeInit /\ Len(rootDoc) <= 1 /\ fn = NoCall

(***************************************************************************)
(* A whole render: generic include expansion of a vault whose include      *)
(* structure has no cycle, then the diagram pipeline over the document's   *)
(* blocks.                                                                 *)
(***************************************************************************)
\* the targets of the directives of file f of vault v
VaultTargets(v, f) ==
  {v[f][i].target : i \in {j \in DOMAIN v[f] : v[f][j].kind = "inc"}}

RECURSIVE VaultReach(_, _, _)
VaultReach(v, from, n) ==
  IF n = 0 THEN from
  ELSE VaultReach(v, from \cup UNION {VaultTargets(v, f) \cap DOMAIN v : f \in from}, n - 1)

\* the files of v included, directly or not, by f
Below(v, f) == VaultReach(v, VaultTargets(v, f) \cap DOMAIN v, Cardinality(DOMAIN v))

Resolvable(v) ==
  \A f \in {"root.adoc"} \cup Below(v, "root.adoc") : VaultTargets(v, f) \subseteq DOMAIN v

NonCyclic(v) ==
  \A f \in {"root.adoc"} \cup Below(v, "root.adoc") : f \notin Below(v, f)

\* files the root does not reach are never read: they hold a heading only
Unread(v) ==
  \A f \in DOMAIN v \ ({"root.adoc"} \cup Below(v, "root.adoc")) : v[f] = <<HeadLine(1)>>

InitDeps ==
  /\ IncInit
  /\ NonCyclic(incVault)
  /\ Unread(incVault)
  /\ PipeInit
  /\ Len(rootDoc) <= 1
  /\ maxItems = 0
  /\ fn = NoCall

NextDeps ==
  \/ NextInc
  \/ incPc = "done" /\ NextSeq

\* vaults with diagram blocks: a file may hold one block whose body is an
\* include directive
BlockContents ==
  {<<HeadLine(1), OpenLine("plantuml"), d, CloseLine>> : d \in IncDirectives}

\* a file may hold two directives, the first to a file that does not exist
PairContents ==
  {<<IncLine("gone.adoc", 0, opt), IncLine(t, 0, FALSE)>> : opt \in BOOLEAN, t \in IncFiles}

InitMask ==
  /\ incVault \in [IncFiles -> IncContents \cup BlockContents \cup PairContents]
  /\ \E f \in IncFiles : incVault[f] \in BlockContents \cup PairContents
  /\ NonCyclic(incVault)
  /\ Unread(incVault)
  /\ incPc = "idle"
  /\ incStack = <<>>
  /\ incOut = <<>>
  /\ incDeps = {}
  /\ PipeInit
  /\ rootDoc = <<>>
  /\ maxItems = 0
  /\ fn = NoCall

\* generic include expansion of documents with diagram blocks
SpecMask == InitMask /\ [][NextInc]_vars

\* a call of expandVaultIncludes, once made, runs on
SpecDeps ==
  /\ InitDeps
  /\ [][NextDeps]_vars
  /\ WF_vars(NextInc)

\* generic include expansion of one document
SpecInc == InitInc /\ [][NextInc]_vars

\* the same, a started expansion running on (the calls are awaited in turn)
SpecIncFair == InitInc /\ [][NextInc]_vars /\ WF_vars(NextInc)

\* render runs one after the other
SpecSeq == InitSeq /\ [][NextSeq]_vars

\* render runs as the view starts them
SpecView == InitView /\ [][NextView]_vars

NextEvents ==
  \/ LoadFile
  \/ \E p \in VaultPaths : modifyHandler(p)
  \/ RenderImpl
  \/ \E r \in 1..MaxRuns : RunStep(r)

NextTimeout ==
  \/ LoadFile
  \/ RenderImpl
  \/ \E r \in 1..MaxRuns : RunStep(r)
  \/ \E r \in 1..MaxRuns : RenderTimeout(r)
  \/ \E q \in late : LateResponse(q)

(***************************************************************************)
(* The include expansion of a diagram block as a call stack.  The calls of *)
(* expandPlantumlIncludes and expandAdocIncludesInText are frames: fun is  *)
(* the function, pass where the call is ("test" before its depth test,     *)
(* then the replaceAsync pass it runs), todo the lines the pass has not    *)
(* reached, text the output of the pass so far, and then what expandOne    *)
(* does with the result ("puml": expand it as a diagram source at the same *)
(* depth; "splice": put it in the place of the directive).  fn holds the   *)
(* loop of preprocessDiagrams over the blocks of the document.             *)
(***************************************************************************)
NestVault ==
  PVault @@
  ( "self.puml" :> <<PText("self"), PumlInc("include", "self.puml")>> ) @@
  ( "ping.puml" :> <<PumlInc("include", "pong.puml")>> ) @@
  ( "pong.puml" :> <<PText("pong"), PumlInc("include", "ping.puml")>> ) @@
  ( "loop.adoc" :> <<AdocInc("loop.adoc")>> )

Frame(fun, text, depth, then) ==
  [fun |-> fun, pass |-> "test", depth |-> depth, todo |-> text, text |-> <<>>, then |-> then]

\* preprocessDiagrams before its first block
NestIdle(doc) ==
  [f |-> "preprocessDiagrams", doc |-> doc, idx |-> 1,
   out |-> [i \in DOMAIN doc |-> Raw(doc[i])], stack |-> <<>>, deps |-> {}, seen |-> {},
   ready |-> FALSE, src |-> <<>>, deepest |-> 0]

Top == fn.stack[Len(fn.stack)]

CurNest == fn.doc[fn.idx]

\* what the replacer of the frame's pass does with a line
Verdict(fr, l) ==
  IF fr.fun = "adoc"
  THEN IF l.kind # "adocinc" \/ isRemoteLike(l.target) THEN [act |-> "copy"]
       ELSE IF l.target \notin DOMAIN NestVault THEN [act |-> "notFound", target |-> l.target]
       ELSE [act |-> "call", target |-> l.target, once |-> FALSE, fun |-> "adoc", then |-> "splice"]
  ELSE IF l.kind # fr.pass \/ (fr.pass = "puml" /\ isRemoteLike(l.target)) THEN [act |-> "copy"]
  ELSE LET target == StripAngle(l.target)
           once == fr.pass = "puml" /\ l.mode = "include_once"
       IN  IF isRemoteLike(target) THEN [act |-> "drop", deps |-> {}]
           ELSE IF target \notin DOMAIN NestVault THEN [act |-> "notFound", target |-> target]
           ELSE IF once /\ target \in fn.seen THEN [act |-> "drop", deps |-> {target}]
           ELSE [act |-> "call", target |-> target, once |-> once,
                 fun |-> IF IsAdocFile(target) THEN "adoc" ELSE "puml",
                 then |-> IF IsAdocFile(target) THEN "puml" ELSE "splice"]

AtLine == fn.stack # <<>> /\ Top.pass # "test" /\ Top.todo # <<>>

LastPass(fr) == IF fr.fun = "adoc" THEN "adocinc" ELSE "puml"

\* the catch of preprocessDiagrams: the error wrapper, with the block's own
\* source, takes the block's place and the loop goes on
NestCatch(err) ==
  fn' = [fn EXCEPT !.out[fn.idx] = buildKrokiErrorHtml(CurNest.diagramType, CurNest.format,
                                                       err, CurNest.source),
                   !.stack = <<>>, !.idx = @ + 1]

NestSkip ==
  /\ fn.idx <= Len(fn.doc) /\ fn.stack = <<>> /\ ~fn.ready
  /\ CurNest.diagramType \notin enabledDiagramTypes
  /\ fn' = [fn EXCEPT !.idx = @ + 1]
  /\ UNCHANGED <<incVars, pipeVars, histVars>>

\* sourceForRender: a plantuml block is expanded from depth 0 with a new
\* once-set, any other source is submitted as it is
NestBlockStart ==
  /\ fn.idx <= Len(fn.doc) /\ fn.stack = <<>> /\ ~fn.ready
  /\ CurNest.diagramType \in enabledDiagramTypes
  /\ fn' = IF CurNest.diagramType = "plantuml"
           THEN [fn EXCEPT !.stack = <<Frame("puml", CurNest.source, 0, "splice")>>,
                           !.seen = {}]
           ELSE [fn EXCEPT !.ready = TRUE, !.src = CurNest.source]
  /\ UNCHANGED <<incVars, pipeVars, histVars>>

\* if (depth > maxDepth) throw
NestTooDeep ==
  /\ fn.stack # <<>> /\ Top.pass = "test"
  /\ TooDeep(Top.depth)
  /\ NestCatch(IF Top.fun = "puml" THEN ErrTooDeep ELSE ErrAdocTooDeep)
  /\ UNCHANGED <<incVars, pipeVars, histVars>>

NestEnter ==
  /\ fn.stack # <<>> /\ Top.pass = "test"
  /\ ~TooDeep(Top.depth)
  /\ fn' = [fn EXCEPT !.stack[Len(fn.stack)].pass = "adocinc",
                      !.deepest = Max(@, Top.depth)]
  /\ UNCHANGED <<incVars, pipeVars, histVars>>

NestCopy ==
  /\ AtLine
  /\ Verdict(Top, Head(Top.todo)).act = "copy"
  /\ fn' = [fn EXCEPT !.stack[Len(fn.stack)].todo = Tail(@),
                      !.stack[Len(fn.stack)].text = Append(@, Head(Top.todo))]
  /\ UNCHANGED <<incVars, pipeVars, histVars>>

\* expandOne returns "": a remote target, or an include-once target seen before
NestDrop ==
  /\ AtLine
  /\ Verdict(Top, Head(Top.todo)).act = "drop"
  /\ fn' = [fn EXCEPT !.stack[Len(fn.stack)].todo = Tail(@),
                      !.deps = @ \cup Verdict(Top, Head(Top.todo)).deps]
  /\ UNCHANGED <<incVars, pipeVars, histVars>>

NestNotFound ==
  /\ AtLine
  /\ Verdict(Top, Head(Top.todo)).act = "notFound"
  /\ NestCatch(ErrNotFound(Verdict(Top, Head(Top.todo)).target))
  /\ UNCHANGED <<incVars, pipeVars, histVars>>

\* the recursive call, one level deeper, on the content of the file
NestCall ==
  /\ AtLine
  /\ LET v == Verdict(Top, Head(Top.todo))
     IN  /\ v.act = "call"
         /\ fn' = [fn EXCEPT !.stack = Append([@ EXCEPT ![Len(@)].todo = Tail(@)],
                                              Frame(v.fun, NestVault[v.target], Top.depth + 1,
                                                    v.then)),
                             !.deps = @ \cup {v.target},
                             !.seen = IF v.once THEN @ \cup {v.target} ELSE @]
  /\ UNCHANGED <<incVars, pipeVars, histVars>>

\* expandPlantumlIncludes: the second replaceAsync runs on the output of the first
NestPassEnd ==
  /\ fn.stack # <<>> /\ Top.pass = "adocinc" /\ Top.todo = <<>>
  /\ Top.fun = "puml"
  /\ fn' = [fn EXCEPT !.stack[Len(fn.stack)] =
                         [Top EXCEPT !.pass = "puml", !.todo = Top.text, !.text = <<>>]]
  /\ UNCHANGED <<incVars, pipeVars, histVars>>

\* expandOne, for an AsciiDoc file: the expanded text is expanded as a
\* diagram source, at the depth of the call that has returned
NestThenPuml ==
  /\ fn.stack # <<>> /\ Top.pass = LastPass(Top) /\ Top.todo = <<>>
  /\ Top.then = "puml"
  /\ fn' = [fn EXCEPT !.stack[Len(fn.stack)] = Frame("puml", Top.text, Top.depth, "splice")]
  /\ UNCHANGED <<incVars, pipeVars, histVars>>

\* a call returns: its text takes the place of the directive in the caller,
\* or is the source to render when the call is the block's own
NestReturn ==
  /\ fn.stack # <<>> /\ Top.pass = LastPass(Top) /\ Top.todo = <<>>
  /\ Top.then = "splice"
  /\ fn' = IF Len(fn.stack) = 1
           THEN [fn EXCEPT !.stack = <<>>, !.ready = TRUE, !.src = Top.text]
           ELSE [fn EXCEPT !.stack = [SubSeq(@, 1, Len(@) - 1)
                                        EXCEPT ![Len(@) - 1].text = @ \o Top.text]]
  /\ UNCHANGED <<incVars, pipeVars, histVars>>

\* renderWithCache returns data or throws; either way the loop goes on
NestRender ==
  /\ fn.ready
  /\ \E w \in {Substitute(CurNest, data, fn.src) : data \in Svgs} \cup
              {buildKrokiErrorHtml(CurNest.diagramType, CurNest.format, m, fn.src) :
                 m \in RenderFailures} :
        fn' = [fn EXCEPT !.out[fn.idx] = w, !.ready = FALSE, !.idx = @ + 1]
  /\ UNCHANGED <<incVars, pipeVars, histVars>>

NextNest ==
  \/ NestSkip
  \/ NestBlockStart
  \/ NestTooDeep
  \/ NestEnter
  \/ NestCopy
  \/ NestDrop
  \/ NestNotFound
  \/ NestCall
  \/ NestPassEnd
  \/ NestThenPuml
  \/ NestReturn
  \/ NestRender

\* documents of two blocks, of the blocks above and of the blocks whose
\* include files include themselves
InitNest ==
  /\ IncQuiet
  /\ PipeStart
  /\ rootDoc \in [1..2 -> Blocks \cup NestBlocks]
  /\ fn = NestIdle(rootDoc)

\* preprocessDiagrams on one document, the include expansion call by call;
\* an async function that is not waiting goes on
SpecNest == InitNest /\ [][NextNest]_vars /\ WF_vars(NextNest)

\* render runs as the view starts them, the request timeout included
SpecTimeout == InitView /\ [][NextTimeout]_vars

\* render runs as the view starts them, with the file events counted
SpecEvents == InitView /\ [][NextEvents]_vars

(***************************************************************************)
(* Functions of the program applied to one input each: the input is drawn  *)
(* at the start and the function's action applies it.                      *)
(***************************************************************************)
Applied == "out" \in DOMAIN fn

Result(out) == [f |-> fn.f, in |-> fn.in, out |-> out]

\* caches of up to MaxTrimItems records in insertion order, limits up to the same
MaxTrimItems == 3

TrimRecord(k, t) ==
  [key |-> k, mime |-> mimeOf("svg"), base64 |-> toBase64(<<"<text">>), savedAt |-> t]

TrimCaches ==
  UNION { { [i \in 1..n |-> TrimRecord(i, t[i])] : t \in [1..n -> 0..MaxTrimItems] }
          : n \in 0..MaxTrimItems }

TrimInputs == [items : TrimCaches, max : 0..MaxTrimItems]

ApplyTrimCache ==
  /\ fn.f = "trimCache"
  /\ ~Applied
  /\ fn' = Result(trimCache(fn.in.items, fn.in.max))
  /\ UNCHANGED <<incVars, pipeVars, histVars>>

\* SVG texts of up to MaxSvgLen pieces, for each diagram kind
MaxSvgLen == 4

SvgPieces == {"syntax error", "Syntax Error", "<path", "<line", "<text"}

SvgTexts == UNION {[1..n -> SvgPieces] : n \in 0..MaxSvgLen}

SvgInputs == [svgText : SvgTexts, diagramType : {"mermaid", "plantuml", "graphviz"}]

ApplyIsLikelyErrorSvg ==
  /\ fn.f = "isLikelyErrorSvg"
  /\ ~Applied
  /\ fn' = Result(isLikelyErrorSvg(fn.in.svgText, fn.in.diagramType))
  /\ UNCHANGED <<incVars, pipeVars, histVars>>

\* diagram sources of up to MaxSourceLen lines, with remote directives of
\* both families
MaxSourceLen == 3

SourceLines ==
  { PText("a"),
    AdocInc("https://example.org/lib.puml"),
    AdocInc("part.adoc"),
    PumlInc("include", "https://example.org/lib.puml"),
    PumlInc("include", "<https://example.org/lib.puml>"),
    PumlInc("include_once", "common.puml") }

SourceInputs == UNION {[1..n -> SourceLines] : n \in 0..MaxSourceLen}

ApplyExpandPlantumlIncludes ==
  /\ fn.f = "expandPlantumlIncludes"
  /\ ~Applied
  /\ fn' = Result(expandPlantumlIncludes(fn.in, 0, ExpState({}, {}, <<>>)))
  /\ UNCHANGED <<incVars, pipeVars, histVars>>

(***************************************************************************)
(* Text with its line endings: a text is the sequence of its pieces, a     *)
(* piece being a line ending, a blank, the opening of an include macro up  *)
(* to its bracket, the closing bracket, or other characters.               *)
(***************************************************************************)
LF == "\n"
CRLF == "\r\n"

IsEol(c) == c \in {LF, CRLF}

\* text.split(/\r?\n/)
RECURSIVE SplitLines(_)
SplitLines(text) ==
  IF \A i \in 1..Len(text) : ~IsEol(text[i]) THEN <<text>>
  ELSE LET i == CHOOSE k \in 1..Len(text) :
                  IsEol(text[k]) /\ \A m \in 1..(k - 1) : ~IsEol(text[m])
       IN  <<SubSeq(text, 1, i - 1)>> \o SplitLines(SubSeq(text, i + 1, Len(text)))

\* lines.join(sep)
RECURSIVE JoinLines(_, _)
JoinLines(lines, sep) ==
  IF lines = <<>> THEN <<>>
  ELSE IF Len(lines) = 1 THEN lines[1]
  ELSE lines[1] \o <<sep>> \o JoinLines(Tail(lines), sep)

\* the line without its leading and trailing blanks
trim(line) ==
  LET inked == {i \in 1..Len(line) : line[i] # " "}
  IN  IF inked = {} THEN <<>>
      ELSE SubSeq(line, CHOOSE i \in inked : \A j \in inked : i <= j,
                        CHOOSE i \in inked : \A j \in inked : i >= j)

Includes(line, c) == \E i \in 1..Len(line) : line[i] = c

\* /^[ \t\uFEFF]*include::/i
LooksLikeInclude(line) == trim(line) # <<>> /\ trim(line)[1] = "include::p["

\* the inner loop of joinBrokenIncludeMacros: lines are appended, trimmed, to
\* buf until it holds a closing bracket or the lines run out
RECURSIVE Absorb(_, _, _)
Absorb(lines, buf, j) ==
  IF j > Len(lines) THEN [buf |-> buf, j |-> j]
  ELSE LET b == buf \o trim(lines[j])
       IN  IF Includes(b, "]") THEN [buf |-> b, j |-> j] ELSE Absorb(lines, b, j + 1)

RECURSIVE JoinFrom(_, _)
JoinFrom(lines, i) ==
  IF i > Len(lines) THEN <<>>
  ELSE IF LooksLikeInclude(lines[i]) /\ ~Includes(lines[i], "]")
  THEN LET r == Absorb(lines, lines[i], i + 1)
       IN  <<r.buf>> \o JoinFrom(lines, r.j + 1)
  ELSE <<lines[i]>> \o JoinFrom(lines, i + 1)

joinBrokenIncludeMacros(text) == JoinLines(JoinFrom(SplitLines(text), 1), LF)

\* the include regular expression of expandVaultIncludes matches no line
NoDirectiveLine(text) ==
  \A i \in 1..Len(SplitLines(text)) :
    LET line == SplitLines(text)[i]
    IN  ~(LooksLikeInclude(line) /\ trim(line)[Len(trim(line))] = "]")

\* expandVaultIncludes at depth 0 on a text in which, once broken macros are
\* joined, the include expression matches no line: out is text.slice(0)
expandVaultIncludesUnmatched(text) == joinBrokenIncludeMacros(text)

\* texts of up to MaxTextLen pieces without a directive to expand
MaxTextLen == 4

TextPieces == {"a", " ", "include::p[", "]", LF, CRLF}

TextInputs ==
  {t \in UNION {[1..n -> TextPieces] : n \in 0..MaxTextLen} :
     NoDirectiveLine(joinBrokenIncludeMacros(t))}

ApplyExpandVaultIncludes ==
  /\ fn.f = "expandVaultIncludes"
  /\ ~Applied
  /\ fn' = Result(expandVaultIncludesUnmatched(fn.in))
  /\ UNCHANGED <<incVars, pipeVars, histVars>>

(***************************************************************************)
(* pickLines.  The text is the sequence of its lines (what split yields,   *)
(* the result what join takes): a plain line, an empty line or a heading   *)
(* line (one matching /^\s*=+\s+/), a line carrying its number in the file. *)
(* The spec string is the sequence of its pieces: a run of digits, "..",   *)
(* or one of the separators.                                               *)
(***************************************************************************)
PlainLine(n)   == [kind |-> "plain", no |-> n]
EmptyLine      == [kind |-> "empty"]
HeadingLine(n) == [kind |-> "heading", no |-> n]

NumberTexts == <<"1", "2", "3", "4", "5", "6", "7", "8", "9", "10">>

IsDigits(p) == \E n \in 1..Len(NumberTexts) : NumberTexts[n] = p

parseInt(p) == CHOOSE n \in 1..Len(NumberTexts) : NumberTexts[n] = p

IsSeparator(p) == p \in {";", ",", "|"}

\* spec.split(/[;,\|]/)
RECURSIVE SplitSpec(_)
SplitSpec(spec) ==
  IF \A i \in 1..Len(spec) : ~IsSeparator(spec[i]) THEN <<spec>>
  ELSE LET i == CHOOSE k \in 1..Len(spec) :
                  IsSeparator(spec[k]) /\ \A m \in 1..(k - 1) : ~IsSeparator(spec[m])
       IN  <<SubSeq(spec, 1, i - 1)>> \o SplitSpec(SubSeq(spec, i + 1, Len(spec)))

\* variant for sensitivity checks: a range is taken only with its bounds in order
PickedOfAscending(part) ==
  IF Len(part) = 1 /\ IsDigits(part[1]) THEN {parseInt(part[1])}
  ELSE IF Len(part) = 3 /\ IsDigits(part[1]) /\ part[2] = ".." /\ IsDigits(part[3])
  THEN parseInt(part[1])..parseInt(part[3])
  ELSE {}

\* the numbers one part of the spec adds to picked
PickedOf(part) ==
  IF Len(part) = 1 /\ IsDigits(part[1]) THEN {parseInt(part[1])}
  ELSE IF Len(part) = 3 /\ IsDigits(part[1]) /\ part[2] = ".." /\ IsDigits(part[3])
  THEN Min(parseInt(part[1]), parseInt(part[3]))..Max(parseInt(part[1]), parseInt(part[3]))
  ELSE {}

Picked(spec) == UNION {PickedOf(SplitSpec(spec)[i]) : i \in 1..Len(SplitSpec(spec))}

\* the loop over linesArr: prev is prevPickedLineNo (0 for null)
RECURSIVE PickScan(_, _, _, _, _)
PickScan(linesArr, picked, i, prev, out) ==
  IF i > Len(linesArr) THEN out
  ELSE IF i \notin picked THEN PickScan(linesArr, picked, i + 1, prev, out)
  ELSE LET line == linesArr[i]
           EndsNonEmpty(o) == o # <<>> /\ o[Len(o)] # EmptyLine
           o1 == IF prev # 0 /\ i # prev + 1 /\ EndsNonEmpty(out)
                 THEN Append(out, EmptyLine) ELSE out
           o2 == IF line.kind = "heading" /\ EndsNonEmpty(o1)
                 THEN Append(o1, EmptyLine) ELSE o1
       IN  PickScan(linesArr, picked, i + 1, i, Append(o2, line))

pickLines(text, spec) == PickScan(text, Picked(spec), 1, 0, <<>>)

\* files of FileLines lines and of ShortLines lines, at most one of the
\* first MaxPickNumber lines empty or a heading; specs of one or two parts
\* over the numbers up to MaxPickNumber
MaxPickNumber == 6
FileLines == 10
ShortLines == 4

PickFile(len, special, kind) ==
  [i \in 1..len |-> IF i = special THEN (IF kind = "empty" THEN EmptyLine ELSE HeadingLine(i))
                     ELSE PlainLine(i)]

PickTexts ==
  {PickFile(len, special, kind) :
     len \in {ShortLines, FileLines}, special \in 0..MaxPickNumber, kind \in {"empty", "heading"}}

PickParts ==
  {<<NumberTexts[a]>> : a \in 1..MaxPickNumber}
    \cup {<<NumberTexts[a], "..", NumberTexts[b]>> : a, b \in 1..MaxPickNumber}
    \cup {<<"..">>}

PickSpecs ==
  PickParts \cup {p \o <<c>> \o q : p, q \in PickParts, c \in {";", ",", "|"}}

PickInputs == [text : PickTexts, spec : PickSpecs]

ApplyPickLines ==
  /\ fn.f = "pickLines"
  /\ ~Applied
  /\ fn' = Result(pickLines(fn.in.text, fn.in.spec))
  /\ UNCHANGED <<incVars, pipeVars, histVars>>

(***************************************************************************)
(* pickTags.  A line is a start marker tag::name[], an end marker          *)
(* end::name[], or a line that matches neither expression.                 *)
(***************************************************************************)
StartMarker(name) == [kind |-> "tag", name |-> name]
EndMarker(name)   == [kind |-> "end", name |-> name]

\* variant for sensitivity checks: an end marker closes only the tag it names
TagStepOwnEnd(st, line, want) ==
  IF line.kind = "tag"
  THEN [st EXCEPT !.currentTag = line.name, !.capturing = line.name \in want]
  ELSE IF line.kind = "end"
  THEN IF line.name = st.currentTag
       THEN [st EXCEPT !.capturing = FALSE, !.currentTag = ""]
       ELSE st
  ELSE IF st.capturing THEN [st EXCEPT !.out = Append(@, line)] ELSE st

\* one turn of the loop over the lines
TagStep(st, line, want) ==
  IF line.kind = "tag"
  THEN [st EXCEPT !.currentTag = line.name, !.capturing = line.name \in want]
  ELSE IF line.kind = "end"
  THEN [st EXCEPT !.capturing = FALSE, !.currentTag = ""]
  ELSE IF st.capturing THEN [st EXCEPT !.out = Append(@, line)] ELSE st

RECURSIVE TagScan(_, _, _, _)
TagScan(lines, i, st, want) ==
  IF i > Len(lines) THEN st
  ELSE TagScan(lines, i + 1, TagStep(st, lines[i], want), want)

pickTags(text, want) ==
  TagScan(text, 1, [capturing |-> FALSE, currentTag |-> "", out |-> <<>>], want).out

\* texts of up to MaxTagLines lines over two tag names, every set of wanted names
MaxTagLines == 5

TagNames == {"public", "internal"}

TagLines(i) ==
  {StartMarker(n) : n \in TagNames} \cup {EndMarker(n) : n \in TagNames} \cup {PlainLine(i)}

TagTexts ==
  UNION { {t \in [1..n -> UNION {TagLines(i) : i \in 1..n}] : \A i \in 1..n : t[i] \in TagLines(i)}
          : n \in 0..MaxTagLines }

TagInputs == [text : TagTexts, want : SUBSET TagNames]

ApplyPickTags ==
  /\ fn.f = "pickTags"
  /\ ~Applied
  /\ fn' = Result(pickTags(fn.in.text, fn.in.want))
  /\ UNCHANGED <<incVars, pipeVars, histVars>>

\* an attribute of a block's attribute line, key=value
AttrPart(k, v) == [key |-> k, value |-> v]

\* /^format\s*=\s*(svg|png)\s*$/i
MatchesFormat(p) ==
  /\ toLowerCase(p.key) = "format"
  /\ toLowerCase(p.value) \in {"svg", "png"}

\* parseAttr: the first part is the kind; format starts as "svg" and every
\* part that matches sets it, so the last match stands
parseAttr(parts) ==
  LET hits == {i \in 2..Len(parts) : MatchesFormat(parts[i])}
  IN  [diagramType |-> parts[1],
       format |-> IF hits = {} THEN "svg"
                  ELSE toLowerCase(parts[CHOOSE i \in hits : \A j \in hits : j <= i].value)]

\* b.format ?? plugin.settings.defaultFormat
FormatOrDefault(format, defaultFormat) ==
  IF format \in {"svg", "png"} THEN format ELSE defaultFormat

\* the format and the fingerprint preprocessDiagrams uses for a block
BlockFormat(attr, source, defaultFormat) ==
  LET b == parseAttr(attr)
      format == FormatOrDefault(b.format, defaultFormat)
  IN  [format |-> format, key |-> sha256Hex(b.diagramType, format, source)]

\* attribute lines with up to MaxAttrParts attributes after the kind
MaxAttrParts == 2

AttrParts == {AttrPart(k, v) : k \in {"format", "FORMAT", "role"},
                               v \in {"svg", "png", "PNG", "Svg", "gif"}}

AttrLines == UNION { {<<"plantuml">> \o t : t \in [1..n -> AttrParts]} : n \in 0..MaxAttrParts }

FormatInputs == [attr : AttrLines, source : {<<PText("a")>>}, defaultFormat : {"svg", "png"}]

ApplyBlockFormat ==
  /\ fn.f = "blockFormat"
  /\ ~Applied
  /\ fn' = Result(BlockFormat(fn.in.attr, fn.in.source, fn.in.defaultFormat))
  /\ UNCHANGED <<incVars, pipeVars, histVars>>

\* expandIncludes (util/includeExpander) is called without opts.maxDepth
expandIncludesMaxDepth == 20

CycleDetectedLine(p) == [kind |-> "cycle", path |-> p]

\* expandRec and its loop over the directives of src from line i on; st holds
\* the sets visited and deps, which all calls share and only ever extend
RECURSIVE expandRec(_, _, _, _, _), ExpandRecFrom(_, _, _, _, _)
expandRec(v, path, src, depth, st) ==
  IF depth > expandIncludesMaxDepth
  THEN [text |-> src \o <<MaxDepthLine(path)>>, visited |-> st.visited, deps |-> st.deps]
  ELSE ExpandRecFrom(v, src, 1, depth, st)

ExpandRecFrom(v, src, i, depth, st) ==
  IF i > Len(src) THEN [text |-> <<>>, visited |-> st.visited, deps |-> st.deps]
  ELSE IF src[i].kind # "inc"
  THEN [ExpandRecFrom(v, src, i + 1, depth, st) EXCEPT !.text = <<src[i]>> \o @]
  ELSE LET t == src[i].target
       IN  IF t \notin DOMAIN v
           THEN [ExpandRecFrom(v, src, i + 1, depth, st) EXCEPT !.text = <<NotFoundLine(t)>> \o @]
           ELSE IF t \in st.visited
           THEN [ExpandRecFrom(v, src, i + 1, depth, [st EXCEPT !.deps = @ \cup {t}])
                   EXCEPT !.text = <<CycleDetectedLine(t)>> \o @]
           ELSE LET included == expandRec(v, t, v[t], depth + 1,
                                          [visited |-> st.visited \cup {t}, deps |-> st.deps \cup {t}])
                    rest == ExpandRecFrom(v, src, i + 1, depth,
                                          [visited |-> included.visited, deps |-> included.deps])
                IN  [rest EXCEPT !.text = <<BeginLine(t)>> \o included.text \o <<EndLine(t)>> \o @]

\* expandIncludes of the base file root.adoc with its own text
expandIncludes(v) ==
  LET r == expandRec(v, "root.adoc", v["root.adoc"], 0,
                     [visited |-> {"root.adoc"}, deps |-> {"root.adoc"}])
  IN  [text |-> r.text, deps |-> r.deps]

\* vaults whose files hold up to MaxDirectives lines, directives among them
MaxDirectives == 2

DirectiveLines == {HeadLine(1)} \cup {IncLine(t, 0, FALSE) : t \in IncFiles \cup {"gone.adoc"}}

DirectiveTexts == UNION {[1..n -> DirectiveLines] : n \in 1..MaxDirectives}

ExpandInputs == {v \in [IncFiles -> DirectiveTexts] : Unread(v)}

ApplyExpandIncludes ==
  /\ fn.f = "expandIncludes"
  /\ ~Applied
  /\ fn' = Result(expandIncludes(fn.in))
  /\ UNCHANGED <<incVars, pipeVars, histVars>>

(***************************************************************************)
(* Substitution on texts: a text is the sequence of its pieces, a piece    *)
(* being one character that matters ("$", "&", "'", "<", the grave accent  *)
(* written "GRAVE") or a run of other text.                                *)
(***************************************************************************)
RECURSIVE Flatten(_)
Flatten(ss) == IF ss = <<>> THEN <<>> ELSE Head(ss) \o Flatten(Tail(ss))

\* escapeHtml: & < > " ' become entities, which begin with "&"
escapeHtml(text) ==
  Flatten([i \in 1..Len(text) |->
             IF text[i] = "&" THEN <<"&", "amp;">>
             ELSE IF text[i] = "<" THEN <<"&", "lt;">>
             ELSE IF text[i] = "'" THEN <<"&", "#39;">>
             ELSE <<text[i]>>])

\* the raw text of a block: attribute line, ----, body, ----
RawText(source) == <<"[plantuml]", "----">> \o source \o <<"----">>

\* the passthrough block ++++ html ++++ with the html of buildKrokiErrorHtml (message and
\* escaped source), of buildDiagramWrapperHtml around svgToInlineHtml (the
\* svg and the escaped source as search index), or of the img element
WrapperText(kind, source) ==
  <<"++++", "<div>">> \o
  (IF kind = "error" THEN <<"Kroki render failed">> \o escapeHtml(source)
   ELSE IF kind = "diagram" THEN <<"<svg/>">> \o escapeHtml(source)
   ELSE <<"<img/>">>) \o
  <<"</div>", "++++">>

\* the replacement text of String.prototype.replace with the patterns $$, $&,
\* $GRAVE and $' resolved (a pattern that is a string has no captures)
RECURSIVE GetSubstitution(_, _, _, _)
GetSubstitution(replacement, before, matched, after) ==
  IF replacement = <<>> THEN <<>>
  ELSE IF Head(replacement) = "$" /\ Len(replacement) >= 2
          /\ replacement[2] \in {"$", "&", "GRAVE", "'"}
  THEN (IF replacement[2] = "$" THEN <<"$">>
        ELSE IF replacement[2] = "&" THEN matched
        ELSE IF replacement[2] = "GRAVE" THEN before
        ELSE after)
       \o GetSubstitution(SubSeq(replacement, 3, Len(replacement)), before, matched, after)
  ELSE <<Head(replacement)>> \o GetSubstitution(Tail(replacement), before, matched, after)

\* where pattern occurs in text
OccursAt(text, pattern) ==
  {i \in 1..(Len(text) - Len(pattern) + 1) : SubSeq(text, i, i + Len(pattern) - 1) = pattern}

\* out.replace(b.raw, replacement): the first occurrence only, with the
\* replacement patterns resolved
StringReplace(text, pattern, replacement) ==
  LET at == OccursAt(text, pattern)
  IN  IF at = {} THEN text
      ELSE LET i == CHOOSE i \in at : \A j \in at : i <= j
               before == SubSeq(text, 1, i - 1)
               after == SubSeq(text, i + Len(pattern), Len(text))
           IN  before \o GetSubstitution(replacement, before, pattern, after) \o after

\* the loop of preprocessDiagrams over the blocks in document order, kinds[i]
\* being the wrapper the i-th block's render leads to
RECURSIVE SubstituteFrom(_, _, _, _)
SubstituteFrom(out, sources, kinds, i) ==
  IF i > Len(sources) THEN out
  ELSE SubstituteFrom(StringReplace(out, RawText(sources[i]), WrapperText(kinds[i], sources[i])),
                      sources, kinds, i + 1)

\* the document of the blocks, a line of text before each
DocumentText(sources) ==
  Flatten([i \in 1..Len(sources) |-> <<"text">> \o RawText(sources[i])])

substituteBlocks(sources, kinds) == SubstituteFrom(DocumentText(sources), sources, kinds, 1)

\* documents of up to MaxSame blocks of the same raw text, whose body has up
\* to MaxBodyLen pieces
MaxSame == 2

MaxBodyLen == 2

BodyTexts == UNION {[1..n -> {"a", "$", "&", "'", "GRAVE"}] : n \in 1..MaxBodyLen}

SubstituteInputs ==
  UNION { [source : BodyTexts, kinds : [1..k -> {"diagram", "error", "img"}]] : k \in 1..MaxSame }

ApplySubstituteBlocks ==
  /\ fn.f = "substituteBlocks"
  /\ ~Applied
  /\ fn' = Result(substituteBlocks([i \in 1..Len(fn.in.kinds) |-> fn.in.source], fn.in.kinds))
  /\ UNCHANGED <<incVars, pipeVars, histVars>>

InitFn ==
  /\ IncQuiet
  /\ PipeInit
  /\ rootDoc = <<>>
  /\ maxItems = 0
  /\ \/ \E in \in TrimInputs : fn = [f |-> "trimCache", in |-> in]
     \/ \E in \in SvgInputs : fn = [f |-> "isLikelyErrorSvg", in |-> in]
     \/ \E in \in SourceInputs : fn = [f |-> "expandPlantumlIncludes", in |-> in]
     \/ \E in \in TextInputs : fn = [f |-> "expandVaultIncludes", in |-> in]
     \/ \E in \in PickInputs : fn = [f |-> "pickLines", in |-> in]
     \/ \E in \in TagInputs : fn = [f |-> "pickTags", in |-> in]
     \/ \E in \in FormatInputs : fn = [f |-> "blockFormat", in |-> in]
     \/ \E in \in ExpandInputs : fn = [f |-> "expandIncludes", in |-> in]
     \/ \E in \in SubstituteInputs : fn = [f |-> "substituteBlocks", in |-> in]

NextFn ==
  \/ ApplyTrimCache
  \/ ApplyIsLikelyErrorSvg
  \/ ApplyExpandPlantumlIncludes
  \/ ApplyExpandVaultIncludes
  \/ ApplyPickLines
  \/ ApplyPickTags
  \/ ApplyBlockFormat
  \/ ApplyExpandIncludes
  \/ ApplySubstituteBlocks

SpecFn == InitFn /\ [][NextFn]_vars

(***************************************************************************)
(* Properties of generic include expansion (SpecInc).                      *)
(***************************************************************************)

\* C4: a directive whose resolved path is already on the recursion stack is
\* not expanded again (no path is on the stack twice), and the composed
\* document of a vault where that happened carries a cycle diagnostic.
\* expandVaultIncludes keeps no stack of paths: the program violates this.
C4_CycleStopsExpansion ==
  /\ \A i, j \in 1..Len(incStack) : i < j => incStack[i].path # incStack[j].path
  /\ incPc = "done" =>
       \A k \in 1..Len(incOut) :
          incOut[k].kind = "maxdepth" => \E c \in 1..Len(incOut) : incOut[c].kind = "cycle"

\* C5: in the composed document every heading stands at the depth written
\* in its file plus the sum of the leveloffset values of the directives it
\* was included through (never above level 1).  An ancestor's shift is applied
\* again to text a nested include already shifted: the program violates this.
C5_OffsetAppliedOnce ==
  incPc = "done" =>
    \A k \in 1..Len(incOut) :
       incOut[k].kind = "head" =>
         incOut[k].level = Max(1, incOut[k].orig + incOut[k].chain)

BlockSources(text) ==
  {extractDiagramBlocks(text)[i].source : i \in 1..Len(extractDiagramBlocks(text))}

\* C16 as stated: the body of every diagram block of the composed document
\* is the body of a diagram block as written in a file of the vault, be it
\* the root or an included file.
C16_BlockBodiesAsWritten ==
  incPc = "done" =>
    BlockSources(incOut) \subseteq UNION {BlockSources(incVault[f]) : f \in DOMAIN incVault}

\* C22: no call deeper than maxDepth scans its text: it returns the
\* diagnostic followed by its text as it was; the calls up to maxDepth go on
\* expanding, and every expansion comes to its end, whatever the include graph.
C22_DepthBounded ==
  /\ [](\A k \in 1..Len(incStack) :
          /\ incStack[k].depth = k - 1
          /\ incStack[k].depth <= maxDepth + 1
          /\ incStack[k].depth > maxDepth =>
                /\ incStack[k].i = Len(incStack[k].text) + 1
                /\ incStack[k].out = <<MaxDepthLine(incStack[k].path)>> \o incStack[k].text)
  /\ [][Len(incStack') > Len(incStack) /\ incStack # <<>> => IncTop.depth <= maxDepth]_vars
  /\ <>(incPc = "done")

\* a root that includes itself: maxDepth + 1 nested blocks, the innermost the
\* diagnostic and the root's text with its directive left as written
C22_SelfIncludeCutOff ==
  /\ incPc = "done"
  /\ incVault["root.adoc"] = <<HeadLine(1), IncLine("root.adoc", 0, FALSE)>>
  /\ Cardinality({k \in 1..Len(incOut) : incOut[k].kind = "begin"}) = maxDepth + 1
  /\ Cardinality({k \in 1..Len(incOut) : incOut[k].kind = "maxdepth"}) = 1
  /\ \E k \in 1..Len(incOut) - 2 :
       /\ incOut[k] = MaxDepthLine("root.adoc")
       /\ incOut[k + 2] = IncLine("root.adoc", 0, FALSE)

\* a line without the history of its heading shifts
Unshifted(l) == IF l.kind = "head" THEN [kind |-> "head"] ELSE l

\* the expansion of a text of a vault without include cycles, line by line:
\* a directive to a missing file gives the diagnostic, or nothing when it is
\* optional, and the lines after it are expanded as any other
RECURSIVE ExpandedFrom(_, _, _)
ExpandedFrom(v, text, i) ==
  IF i > Len(text) THEN <<>>
  ELSE LET l == text[i]
           here == IF l.kind # "inc" THEN <<Unshifted(l)>>
                   ELSE IF l.target \notin DOMAIN v
                   THEN (IF l.optional THEN <<>> ELSE <<NotFoundLine(l.target)>>)
                   ELSE <<BeginLine(l.target)>> \o ExpandedFrom(v, v[l.target], 1)
                          \o <<EndLine(l.target)>>
       IN  here \o ExpandedFrom(v, text, i + 1)

\* C21: a directive whose target is no existing file leaves the NOT FOUND
\* diagnostic in its place, or nothing when it is optional; its target never
\* joins the dependency set and the directives after it are expanded.
C21_NotFoundIsLocal ==
  /\ incDeps \subseteq DOMAIN incVault
  /\ incPc = "done" =>
       LET root == incVault["root.adoc"]
           whole == unmaskDiagramBlocks(ExpandedFrom(incVault, maskDiagramBlocks(root), 1),
                                        extractDiagramBlocks(root))
       IN  [k \in 1..Len(incOut) |-> Unshifted(incOut[k])]
             = [k \in 1..Len(whole) |-> Unshifted(whole[k])]

\* the root's first directive names a missing file, its second a.adoc
C21_ExpandedAfterNotFound ==
  /\ incPc = "done"
  /\ incVault["root.adoc"] = <<IncLine("gone.adoc", 0, FALSE), IncLine("a.adoc", 0, FALSE)>>
  /\ incVault["a.adoc"] = <<IncLine("gone.adoc", 0, TRUE), IncLine("b.adoc", 0, FALSE)>>
  /\ incOut[1] = NotFoundLine("gone.adoc")
  /\ incOut[2] = BeginLine("a.adoc")
  /\ incOut[3] = BeginLine("b.adoc")
  /\ incDeps = {"root.adoc", "a.adoc", "b.adoc"}

(***************************************************************************)
(* Properties of render runs taken one after the other (SpecSeq).          *)
(***************************************************************************)
Succeeded == BagToSet(okCalls)

\* C1: a fingerprint whose render succeeded and whose record was not trimmed
\* since is never requested again: client.render is not invoked for it, a
\* later invocation of renderWithCache returns the payload stored, and if all
\* its requests succeeded there was exactly one.
C1_SecondServedFromCache ==
  /\ ev.type = "call" => (ev.key \notin Succeeded \/ ev.key \in evicted)
  /\ ev.type = "hit" =>
       /\ ev.key \in CacheKeys(cache)
       /\ toBase64(ev.data) = CacheGet(cache, ev.key).base64
       /\ (ev.key \notin evicted => ev.key \in Succeeded)
  /\ \A k \in Succeeded \ evicted :
        CopiesIn(k, calls) = CopiesIn(k, okCalls) => CopiesIn(k, calls) = 1

\* the second run is served from the cache after exactly one request
C1_HitInSecondRun ==
  /\ ev.type = "hit"
  /\ ev.run = 2
  /\ ev.key \notin evicted
  /\ CopiesIn(ev.key, calls) = 1

\* C2: when client.render throws, the cache is exactly what it was before
\* the request, it holds no record for the fingerprint, and the block stands
\* replaced by the error wrapper with the message thrown and the source that
\* was submitted.
C2_FailureLeavesCache ==
  ev.type = "transportError" =>
    /\ cache = ev.before
    /\ ev.key \notin CacheKeys(cache)
    /\ LET run == runs[ev.run]
           b   == run.doc[ev.idx]
       IN  /\ ev.key = sha256Hex(b.diagramType, b.format, ev.src)
           /\ run.out[ev.idx] = [kind |-> "error", diagramType |-> b.diagramType,
                                 format |-> b.format, message |-> ev.message,
                                 source |-> ev.src]

\* a request fails while the cache holds the record of another fingerprint
C2_FailureWithOtherRecord ==
  /\ ev.type = "transportError"
  /\ cache # <<>>
  /\ ev.src # runs[ev.run].doc[ev.idx].source

\* C3: the cache never holds, as a rendered image, a response that
\* isLikelyErrorSvg classifies as a disguised failure.  renderWithCache stores
\* the record before the response is classified: the program violates this.
C3_DisguisedNeverCached ==
  \A i \in 1..Len(cache) :
     ~(cache[i].mime = mimeOf("svg") /\ isLikelyErrorSvg(fromBase64(cache[i].base64), cache[i].key[1]))

\* C8: every run of the pipeline returns a composed document; none ends
\* with an exception.  A rejected vault.read or saveSettings is not caught
\* inside the pipeline: the program violates this.
C8_NoExceptionEscapes ==
  \A r \in 1..MaxRuns : runs[r].pc = "done" => runs[r].result = "html"

\* the expansion of a block taken on its own
ExpandAlone(b) == ExpandBlock(b, [deps |-> {}, once |-> <<>>])

\* the blocks of a run the loop is past
Processed(r) ==
  IF runs[r].pc \in {"blocks", "save"} THEN 1..(runs[r].idx - 1)
  ELSE IF runs[r].pc = "await" THEN 1..(runs[r].idx - 1)
  ELSE {}

\* C9: a block whose diagram include is missing is replaced by the error
\* wrapper with the message and the block's own source, without a request
\* and without a change of the cache; every other enabled block is submitted
\* and substituted with the source its expansion gives on its own.
C9_IncludeErrorLocal ==
  /\ ev.type = "includeError" =>
       LET run == runs[ev.run]
           b   == run.doc[ev.idx]
       IN  /\ cache = ev.before
           /\ calls = ev.calls
           /\ run.out[ev.idx] = [kind |-> "error", diagramType |-> b.diagramType,
                                 format |-> b.format, message |-> ExpandAlone(b).err,
                                 source |-> b.source]
  /\ \A r \in 1..MaxRuns :
        /\ \A i \in Processed(r) :
              LET b == runs[r].doc[i]
                  w == runs[r].out[i]
              IN  IF b.diagramType \notin enabledDiagramTypes THEN w = Raw(b)
                  ELSE IF ExpandAlone(b).err # NoErr
                       THEN w.kind = "error" /\ w.message = ExpandAlone(b).err
                            /\ w.source = b.source
                  ELSE \/ w.kind = "diagram" /\ w.indexText = ExpandAlone(b).text
                       \/ w.kind = "error" /\ w.source = ExpandAlone(b).text
        /\ runs[r].pc = "await" => runs[r].src = ExpandAlone(CurBlock(r)).text

\* a block failed on its missing include and the block after it was rendered
C9_FailedThenRendered ==
  \E r \in 1..MaxRuns :
     /\ runs[r].pc = "blocks"
     /\ runs[r].idx = 3
     /\ runs[r].out[1].kind = "error"
     /\ runs[r].out[1].message = ErrNotFound("gone.puml")
     /\ runs[r].out[2].kind = "diagram"
     /\ runs[r].doc[2].diagramType = "plantuml"

\* C10: within one pass no file is inserted twice through an include-once
\* directive.  Every block's expansion starts from a new once-set: the
\* program violates this.
C10_OncePerPass ==
  \A r \in 1..MaxRuns :
     runs[r].pc \in {"blocks", "await", "save"} =>
       \A i, j \in 1..Len(runs[r].once) : i < j => runs[r].once[i] # runs[r].once[j]

(***************************************************************************)
(* Properties of render runs as the view starts them (SpecView).           *)
(***************************************************************************)
AllDone ==
  /\ renderSeq > 0
  /\ \A r \in 1..MaxRuns : ~InFlight(r)

C7_OneRunInFlight ==
  Cardinality({r \in 1..MaxRuns : InFlight(r)}) <= 1

C14_RecordsReadOnly ==
  [][\A k \in CacheKeys(cache) \cap CacheKeys(cache') :
       CacheGet(cache', k) = CacheGet(cache, k)]_vars

\* C28 as stated: also when runs overlap, no request is issued for a
\* fingerprint whose render is in flight: no two runs await client.render for
\* the same fingerprint.
C28_OneRequestInFlight ==
  \A r1, r2 \in 1..MaxRuns :
     (r1 # r2 /\ runs[r1].pc = "await" /\ runs[r2].pc = "await") => runs[r1].key # runs[r2].key

(***************************************************************************)
(* Properties of single functions (SpecFn).                                *)
(***************************************************************************)
Distinct(items) ==
  \A i, j \in 1..Len(items) : i # j => items[i].savedAt # items[j].savedAt

\* the records of items that fewer than n records of items are newer than
Newest(items, n) ==
  SelectSeq(items, LAMBDA r :
    Cardinality({j \in 1..Len(items) : items[j].savedAt > r.savedAt}) < n)

\* C13: trimCache with limit N > 0 on M > N records with distinct savedAt
\* leaves exactly the N newest records, unchanged and in their order (the
\* M - N oldest are removed); on M <= N records it changes nothing.
C13_OldestRemoved ==
  (fn.f = "trimCache" /\ Applied /\ fn.in.max > 0) =>
    LET items == fn.in.items
        N == fn.in.max
    IN  /\ (Len(items) > N /\ Distinct(items)) =>
              /\ fn.out = Newest(items, N)
              /\ Len(fn.out) = N
              /\ Cardinality(CacheKeys(items) \ CacheKeys(fn.out)) = Len(items) - N
        /\ Len(items) <= N => fn.out = items

\* three records, the oldest not the first inserted, trimmed to two
C13_ThreeTrimmedToTwo ==
  /\ fn.f = "trimCache"
  /\ Applied
  /\ fn.in.max = 2
  /\ Len(fn.in.items) = 3
  /\ Distinct(fn.in.items)
  /\ fn.in.items[2].savedAt < fn.in.items[1].savedAt
  /\ fn.in.items[2].savedAt < fn.in.items[3].savedAt
  /\ fn.out = <<fn.in.items[1], fn.in.items[3]>>

\* C15 as stated: isLikelyErrorSvg answers true exactly when the response
\* holds a diagnostic phrase and at most one drawing primitive, for every
\* diagram kind.
C15_PhraseAndFewShapes ==
  (fn.f = "isLikelyErrorSvg" /\ Applied) =>
    (fn.out <=> /\ CountPieces(fn.in.svgText, ErrorPhrases) > 0
                /\ CountPieces(fn.in.svgText, ShapeOpenings) <= 1)

Occurrences(text, l) == Cardinality({i \in 1..Len(text) : text[i] = l})

IsRemoteDirective(l) == l.kind \in {"adocinc", "puml"} /\ isRemoteLike(l.target)

\* C17 as stated: a directive of either family with a remote-looking target
\* appears in the expanded source as it does in the source, and no
\* dependency is added for it.
C17_RemoteLeftUntouched ==
  (fn.f = "expandPlantumlIncludes" /\ Applied /\ fn.out.err = NoErr) =>
    /\ \A l \in {x \in SourceLines : IsRemoteDirective(x)} :
          Occurrences(fn.out.text, l) = Occurrences(fn.in, l)
    /\ fn.out.deps \cap RemoteTargets = {}

\* C18 as stated: a text in which "include::" does not occur is returned by
\* expandVaultIncludes at depth 0 as it is, piece for piece, its line endings
\* included.
C18_IdentityWithoutDirectives ==
  (fn.f = "expandVaultIncludes" /\ Applied /\ ~Includes(fn.in, "include::p[")) =>
    fn.out = fn.in

\* the numbers the spec selects: n is selected when a part is n or a range
\* whose bounds, in either order, enclose n
Selects(spec, n) ==
  \E i \in 1..Len(SplitSpec(spec)) :
    LET part == SplitSpec(spec)[i]
    IN  \/ part = <<NumberTexts[n]>>
        \/ \E a, b \in 1..Len(NumberTexts) :
             /\ part = <<NumberTexts[a], "..", NumberTexts[b]>>
             /\ (a <= n /\ n <= b) \/ (b <= n /\ n <= a)

RECURSIVE Ascending(_)
Ascending(S) ==
  IF S = {} THEN <<>>
  ELSE LET m == CHOOSE x \in S : \A y \in S : x <= y
       IN  <<m>> \o Ascending(S \ {m})

SelectedLines(text, spec) ==
  Ascending({n \in 1..Min(Len(text), Len(NumberTexts)) : Selects(spec, n)})

\* line n, selected after line p, is set apart from it: by a gap in the
\* numbers only, or (rule "heading") also by being a heading, unless line p
\* is empty
SetApart(text, p, n, rule) ==
  IF rule = "gap" THEN n # p + 1
  ELSE text[p] # EmptyLine /\ (n # p + 1 \/ text[n].kind = "heading")

\* the selected lines in ascending order, with one empty line before each
\* that is set apart from the one before it
RECURSIVE Separated(_, _, _, _)
Separated(text, sel, k, rule) ==
  IF k > Len(sel) THEN <<>>
  ELSE (IF k > 1 /\ SetApart(text, sel[k - 1], sel[k], rule)
        THEN <<EmptyLine, text[sel[k]]>>
        ELSE <<text[sel[k]]>>) \o Separated(text, sel, k + 1, rule)

\* C19: pickLines returns the selected lines, each once and in ascending
\* order whatever the order of the spec, and puts one empty line before a
\* selected line when the selected line before it is not empty and either
\* is not its neighbour in the file or the line itself is a heading.
C19_SelectedLinesSeparated ==
  (fn.f = "pickLines" /\ Applied) =>
    fn.out = Separated(fn.in.text, SelectedLines(fn.in.text, fn.in.spec), 1, "heading")

\* lines="2;5..6" on a 10-line file: line 2, an empty line, line 5, line 6
C19_TwoFiveToSix ==
  /\ fn.f = "pickLines"
  /\ Applied
  /\ fn.in.spec = <<"2", ";", "5", "..", "6">>
  /\ fn.in.text = PickFile(FileLines, 0, "empty")
  /\ fn.out = <<PlainLine(2), EmptyLine, PlainLine(5), PlainLine(6)>>

\* C19 as stated: where no selected line is empty, pickLines returns the
\* selected lines with one empty line between two that are not neighbours in
\* the file, and nothing else.
C19_OnlyGapsSeparated ==
  (fn.f = "pickLines" /\ Applied) =>
    LET text == fn.in.text
        sel == SelectedLines(text, fn.in.spec)
    IN  (\A k \in 1..Len(sel) : text[sel[k]] # EmptyLine) =>
          fn.out = Separated(text, sel, 1, "gap")

IsMarker(line) == line.kind \in {"tag", "end"}

\* line i is no marker and the last marker before it is a start marker of a
\* wanted name
CapturedAt(text, want, i) ==
  /\ ~IsMarker(text[i])
  /\ \E j \in 1..(i - 1) :
       /\ IsMarker(text[j])
       /\ \A k \in (j + 1)..(i - 1) : ~IsMarker(text[k])
       /\ text[j].kind = "tag"
       /\ text[j].name \in want

\* C20: pickTags returns, in order, exactly the non-marker lines whose most
\* recent marker before them is a start marker of a requested name; an end
\* marker of any name closes capture and no marker line is in the output.
C20_CapturedAfterWantedStart ==
  (fn.f = "pickTags" /\ Applied) =>
    LET text == fn.in.text
        sel == Ascending({i \in 1..Len(text) : CapturedAt(text, fn.in.want, i)})
    IN  /\ fn.out = [k \in 1..Len(sel) |-> text[sel[k]]]
        /\ \A k \in 1..Len(fn.out) : ~IsMarker(fn.out[k])

\* an end marker of another name closed the capture of a wanted tag
C20_ClosedByOtherEnd ==
  /\ fn.f = "pickTags"
  /\ Applied
  /\ fn.in.want = {"public"}
  /\ fn.in.text = <<StartMarker("public"), PlainLine(2), EndMarker("internal"), PlainLine(4)>>
  /\ fn.out = <<PlainLine(2)>>

(***************************************************************************)
(* Properties of a whole render (SpecDeps).                                *)
(***************************************************************************)
\* the local targets of the directives, of either family, among the lines
PTargets(lines) ==
  {lines[i].target :
     i \in {j \in DOMAIN lines : /\ lines[j].kind \in {"adocinc", "puml"}
                                 /\ ~isRemoteLike(lines[j].target)}}

RECURSIVE PReach(_, _)
PReach(from, n) ==
  IF n = 0 THEN from
  ELSE PReach(from \cup UNION {PTargets(PVault[f]) : f \in from \cap DOMAIN PVault}, n - 1)

\* the paths a block's directives name, directly or through included files
BlockPaths(b) ==
  IF b.diagramType = "plantuml" /\ b.diagramType \in enabledDiagramTypes
  THEN PReach(PTargets(b.source), Cardinality(DOMAIN PVault))
  ELSE {}

DocPaths(doc) == UNION {BlockPaths(doc[i]) : i \in DOMAIN doc}

\* the root and every file generic expansion reads
GenericPaths == {"root.adoc"} \cup Below(incVault, "root.adoc")

AllResolve(doc) == Resolvable(incVault) /\ DocPaths(doc) \subseteq DOMAIN PVault

\* how far a run has come: every step of a run moves it on
RunMeasure(run) ==
  CASE run.pc = "none"   -> 0
    [] run.pc = "read"   -> 1
    [] run.pc = "blocks" -> 2 * run.idx
    [] run.pc = "await"  -> 2 * run.idx + 1
    [] run.pc = "save"   -> 2 * (Len(run.doc) + 2)
    [] run.pc = "done"   -> 2 * (MaxBlocks + 3)

\* C11: generic expansion ends and every step of a run moves the run on, up
\* to a fixed number of steps; the dependency set holds the root from the
\* start, only grows during the run and starts anew for every run; for an
\* include structure that resolves, the set returned is the root with every
\* file that generic or diagram include expansion read, whatever the number
\* of directives that name a file.
C11_DepsAreThePathsRead ==
  /\ [](incPc # "idle" => "root.adoc" \in incDeps)
  /\ [](incPc = "done" => incDeps = GenericPaths)
  /\ [][incPc = "run" => incDeps \subseteq incDeps']_vars
  /\ [](\A r \in 1..MaxRuns :
          runs[r].pc \in {"blocks", "await", "save"} =>
            /\ GenericPaths \subseteq runs[r].deps
            /\ runs[r].deps \subseteq GenericPaths \cup (DocPaths(runs[r].doc) \cap DOMAIN PVault)
            /\ (runs[r].pc = "blocks" /\ runs[r].idx = 1) => runs[r].deps = GenericPaths
            /\ (runs[r].pc # "await" /\ runs[r].idx > Len(runs[r].doc) /\ AllResolve(runs[r].doc))
                 => runs[r].deps = GenericPaths \cup DocPaths(runs[r].doc))
  /\ [][\A r \in 1..MaxRuns :
          (runs[r].pc \in {"blocks", "await"} /\ runs'[r].pc \in {"blocks", "await", "save"})
             => runs[r].deps \subseteq runs'[r].deps]_vars
  /\ []((viewDeps.seq > 0 /\ AllResolve(rootDoc)) =>
           viewDeps.paths = GenericPaths \cup DocPaths(rootDoc))
  /\ <>(incPc = "done")
  /\ [][\A r \in 1..MaxRuns :
          runs'[r] # runs[r] => RunMeasure(runs[r]) < RunMeasure(runs'[r])]_vars

\* the second run returned the files of a two-level generic include and of
\* a nested diagram include
C11_NestedDepsReturned ==
  /\ viewDeps.seq = 2
  /\ {"a.adoc", "b.adoc", "lib.puml", "common.puml"} \subseteq viewDeps.paths
  /\ AllResolve(rootDoc)

\* C25 as stated: a block whose attribute line has no recognized format key
\* is rendered and fingerprinted with settings.defaultFormat; a format=svg or
\* format=png attribute, in any letter case, overrides the default.
C25_DefaultFormatApplies ==
  (fn.f = "blockFormat" /\ Applied) =>
    LET given == {i \in 2..Len(fn.in.attr) : MatchesFormat(fn.in.attr[i])}
        format == IF given = {} THEN fn.in.defaultFormat
                  ELSE toLowerCase(fn.in.attr[CHOOSE i \in given : \A j \in given : j <= i].value)
    IN  fn.out = [format |-> format, key |-> sha256Hex("plantuml", format, fn.in.source)]

\* C26 as stated: expandIncludes emits CYCLE DETECTED only for a directive
\* whose resolved path is the base file or an ancestor include; in a vault
\* whose include graph has no cycle no path is its own ancestor, so no
\* diagnostic is emitted and every directive to a file is expanded.
C26_CycleOnlyOnStack ==
  (fn.f = "expandIncludes" /\ Applied /\ NonCyclic(fn.in)) =>
    \A k \in 1..Len(fn.out.text) : fn.out.text[k].kind # "cycle"

\* C27 as stated: for a document with k blocks of the same raw text,
\* processed in document order, after the run no occurrence of the raw text
\* is left and the document holds exactly k wrappers.
C27_EveryOccurrenceReplacedOnce ==
  (fn.f = "substituteBlocks" /\ Applied) =>
    LET k == Len(fn.in.kinds)
    IN  /\ OccursAt(fn.out, RawText(fn.in.source)) = {}
        /\ Cardinality(OccursAt(fn.out, <<"++++", "<div>">>)) = k

\* what holds: when no wrapper holds a replacement pattern, the k blocks
\* are replaced by their k wrappers, each in its place
C27_ReplacedWithoutPatterns ==
  (fn.f = "substituteBlocks" /\ Applied
     /\ \A i \in 1..Len(fn.in.source) : fn.in.source[i] # "$") =>
    LET k == Len(fn.in.kinds)
    IN  /\ OccursAt(fn.out, RawText(fn.in.source)) = {}
        /\ fn.out = Flatten([i \in 1..k |->
                               <<"text">> \o WrapperText(fn.in.kinds[i], fn.in.source)])

(***************************************************************************)
(* Self-including diagram include files (SpecNest).                        *)
(***************************************************************************)
\* what the catch leaves in the place of a block whose expansion threw
NestErrorOf(b, i) ==
  /\ fn.out[i].kind = "error"
  /\ fn.out[i] = buildKrokiErrorHtml(b.diagramType, b.format, fn.out[i].message, b.source)
  /\ fn.out[i].message \in {ErrTooDeep, ErrAdocTooDeep}

NestConfined ==
  /\ Len(fn.stack) <= pumlMaxDepth + 2
  /\ fn.deepest <= pumlMaxDepth
  /\ \A k \in 1..Len(fn.stack) :
        fn.stack[k].depth = k - 1 /\ (fn.stack[k].pass # "test" => k - 1 <= pumlMaxDepth)
  /\ \A i \in 1..Len(fn.doc) :
        IF i >= fn.idx THEN fn.out[i] = Raw(fn.doc[i])
        ELSE LET b == fn.doc[i]
             IN  IF b \in NestBlocks THEN NestErrorOf(b, i)
                 ELSE IF b.diagramType \notin enabledDiagramTypes THEN fn.out[i] = Raw(b)
                 ELSE IF ExpandAlone(b).err # NoErr
                      THEN fn.out[i] = buildKrokiErrorHtml(b.diagramType, b.format,
                                                           ExpandAlone(b).err, b.source)
                      ELSE \/ \E data \in Svgs :
                                 fn.out[i] = Substitute(b, data, ExpandAlone(b).text)
                           \/ \E m \in RenderFailures :
                                 fn.out[i] = buildKrokiErrorHtml(b.diagramType, b.format, m,
                                                                 ExpandAlone(b).text)

NestDone == fn.idx = Len(fn.doc) + 1 /\ fn.stack = <<>> /\ ~fn.ready

\* C30: the include expansion ends on every document, the ones whose diagram
\* include files include themselves directly or through each other too: no
\* call deeper than maxDepth (20) passes its depth test and the call stack
\* holds at most one call more, the call at depth 21 throws the
\* nesting-too-deep error, the catch puts the error wrapper with that message
\* and the block's own source in the block's place, the blocks after it are
\* left as they were until their turn, and the loop reaches the end of the
\* document with every block processed.
C30_NestingConfined == []NestConfined /\ <>[]NestDone

\* a block failed on files that include each other, after calls down to
\* depth 20, and the block after it was rendered
C30_TooDeepThenRendered ==
  /\ NestDone
  /\ fn.doc[1].source = NestSources[2]
  /\ fn.deepest = pumlMaxDepth
  /\ fn.out[1].kind = "error"
  /\ fn.out[1].message = ErrTooDeep
  /\ fn.out[2].kind = "diagram"

(***************************************************************************)
(* Render scheduling under file events (SpecEvents).                       *)
(***************************************************************************)
\* C23: at most one render timeout is pending at any time; an event on a
\* dependency path leaves exactly one pending and starts no run by itself; an
\* event on any other path changes neither the timer nor the runs; and a run
\* starts only by the one pending timeout firing, which leaves none pending,
\* so the events of a burst collected by that timeout start one run.
C23_OneRunPerBurst ==
  /\ [](timeouts <= 1 /\ (renderTimer <=> timeouts = 1))
  /\ [][burst'.dep > burst.dep =>
          timeouts' = 1 /\ renderTimer' /\ UNCHANGED <<renderSeq, runs>>]_vars
  /\ [][burst'.other > burst.other =>
          UNCHANGED <<renderTimer, timeouts, renderSeq, runs>>]_vars
  /\ [][renderSeq' # renderSeq =>
          /\ renderSeq' = renderSeq + 1
          /\ timeouts = 1 /\ timeouts' = 0 /\ ~renderTimer'
          /\ burst'.last = burst.dep /\ burst'.dep = 0]_vars

\* a burst of MaxBurst events on dependency paths, with an event on another
\* path in between or before, has started the second run and left no timeout
C23_BurstStartedOneRun ==
  /\ renderSeq = 2
  /\ burst.last = MaxBurst
  /\ timeouts = 0
  /\ ~renderTimer

\* C29 as stated: a modification of a file that the render on display read
\* leads to a new run: when no timeout is pending and no run is in flight,
\* so that nothing further happens without a new event, the document on
\* display was not rendered from a file that was modified after the run had
\* read it.
C29_NoModificationMissed ==
  (AllDone /\ timeouts = 0 /\ display = [seq |-> renderSeq, kind |-> "html"]) =>
    burst.missed = {}

(***************************************************************************)
(* The request timeout (SpecTimeout).                                      *)
(***************************************************************************)
\* C24: when the timeout expires before the service has answered, the block
\* is replaced by the error wrapper with the timeout message and the source
\* submitted, no record is stored, and the request stays in flight; when its
\* response arrives later, the cache, the runs' documents, the display and
\* the dependency set are unchanged.
C24_TimeoutIsTransportFailure ==
  /\ [][ev' # ev /\ ev'.type = "timeout" =>
          LET r == ev'.run
              b == runs[r].doc[ev'.idx]
          IN  /\ cache' = cache
              /\ runs'[r].out =
                   ReplaceFirst(runs[r].out, b,
                                buildKrokiErrorHtml(b.diagramType, b.format, TimeoutMessage,
                                                    ev'.src))
              /\ [run |-> r, idx |-> ev'.idx, key |-> ev'.key] \in late']_vars
  /\ [][ev' # ev /\ ev'.type = "late" =>
          /\ [run |-> ev'.run, idx |-> ev'.idx, key |-> ev'.key] \in late
          /\ UNCHANGED <<cache, clock, runs, display, viewDeps, renderSeq>>]_vars

\* the response of a request that had timed out has arrived after the run
\* showed its document: no record for the fingerprint, the error on display
C24_LateResponseIgnored ==
  /\ ev.type = "late"
  /\ runs[ev.run].pc = "done"
  /\ display = [seq |-> ev.run, kind |-> "html"]
  /\ ev.key \notin CacheKeys(cache)
  /\ late = {}

====
